---- MODULE Spec2Model ----
(***************************************************************************)
(* A model of the processing-graph runtime of the attachments library      *)
(* (src/attachments/core.py and the verbs registered by load.py,           *)
(* modify.py, refine.py and adapt.py).                                     *)
(*                                                                         *)
(* Python strings are modelled as sequences of tokens: "" is <<>>, string  *)
(* concatenation is \o, and s.endswith(x) looks at the last token.         *)
(* Python objects that are mutated in place are modelled by threading the  *)
(* state of the argument object through every call: a call result carries  *)
(* the returned value (val), the state of the argument object after the    *)
(* call (arg), whether the returned value IS the argument object (alias),  *)
(* the exception raised if any (exc), and the list of registered functions *)
(* the call invoked (log).                                                 *)
(***************************************************************************)
EXTENDS Integers, Sequences, FiniteSets, TLC

VARIABLES
    cur,      \* the value the caller holds: an Attachment, a collection, ...
    status,   \* "run" while the caller can go on, "raised" after an exception
    last,     \* the operation applied last (its name, argument, outcome)
    log,      \* the registered functions invoked by the last operation
    error,    \* the exception that reached the caller, "" if none
    env       \* the collaborators: registered behaviours, readable files

vars == <<cur, status, last, log, error, env>>

(***************************************************************************)
(* Bounds of the model.                                                    *)
(***************************************************************************)
MaxChain == 3
MaxHandlers == 3
MaxOps == 3
\* the largest collection a scenario starts from
MaxSet == 2
\* the most pieces an input string is made of
MaxLen == 4
\* the most inputs given to one Attachments construction
MaxInputs == 2
\* the most refiners applied to one artifact
MaxRefine == 2
\* the most pages of a PDF document
MaxPages == 4
\* the most files under a directory
MaxFiles == 3

(***************************************************************************)
(* Values.                                                                 *)
(***************************************************************************)
EmptyMap == [k \in {} |-> <<>>]

NoneV == [kind |-> "none"]

StrV(s) == [kind |-> "str", s |-> s]

\* Attachment.__init__ after the attachy string was parsed into
\* (path, commands).
Attachment(path, commands) ==
    [kind     |-> "att",
     path     |-> path,
     commands |-> commands,
     obj      |-> "None",
     text     |-> <<>>,
     images   |-> <<>>,
     audio    |-> <<>>,
     metadata |-> EmptyMap,
     pipeline |-> <<>>]

\* AttachmentCollection.__init__
AttachmentCollection(attachments) ==
    [kind |-> "coll", attachments |-> attachments]

\* VerbFunction.__init__
VerbFunction(func, name, args, is_loader) ==
    [kind |-> "verbfn", func |-> func, name |-> name, args |-> args,
     is_loader |-> is_loader]

isAttachment(v) == v.kind = "att"
isCollection(v) == v.kind = "coll"
isNone(v) == v.kind = "none"

\* d[k] = v added to (or replaced in) a Python dict
DictSet(d, k, v) == [x \in DOMAIN d \cup {k} |-> IF x = k THEN v ELSE d[x]]

\* d.get(k, default)
DictGet(d, k, default) == IF k \in DOMAIN d THEN d[k] ELSE default

\* s.endswith(suffix) on a tokenised string
endswith(s, suffixes) == Len(s) > 0 /\ s[Len(s)] \in suffixes

(***************************************************************************)
(* The command parser (Attachment._parse_attachy).  A string is the        *)
(* sequence of its characters.                                             *)
(***************************************************************************)
\* the least j >= i with s[j] = c, 0 when there is none
IndexFrom(s, c, i) ==
    IF \E j \in i..Len(s) : s[j] = c
    THEN CHOOSE j \in i..Len(s) :
             s[j] = c /\ \A x \in i..(j - 1) : s[x] # c
    ELSE 0

\* the colon and the closing bracket of the match of
\* \[([^:]+):([^\]]+)\] that starts at i: the key runs to the first colon,
\* the value to the first closing bracket after it, neither is empty
ColonOf(s, i) == IndexFrom(s, ":", i + 1)
CloseOf(s, i) == IndexFrom(s, "]", ColonOf(s, i) + 1)

MatchAt(s, i) ==
    /\ s[i] = "["
    /\ ColonOf(s, i) >= i + 2
    /\ CloseOf(s, i) >= ColonOf(s, i) + 2

\* str.strip() for the blank
RECURSIVE Strip(_)
Strip(s) ==
    IF s = <<>> THEN s
    ELSE IF s[1] = " " THEN Strip(Tail(s))
    ELSE IF s[Len(s)] = " " THEN Strip(SubSeq(s, 1, Len(s) - 1))
    ELSE s

\* re.sub with extract_command from position i on: path is the text kept
\* so far, commands the dictionary filled so far
RECURSIVE Sub(_, _, _, _)
Sub(s, i, path, commands) ==
    IF i > Len(s) THEN [path |-> Strip(path), commands |-> commands]
    ELSE IF MatchAt(s, i)
    THEN Sub(s, CloseOf(s, i) + 1, path,
             DictSet(commands,
                     Strip(SubSeq(s, i + 1, ColonOf(s, i) - 1)),
                     Strip(SubSeq(s, ColonOf(s, i) + 1, CloseOf(s, i) - 1))))
    ELSE Sub(s, i + 1, Append(path, s[i]), commands)

\* Attachment._parse_attachy
parse_attachy(attachy) ==
    IF attachy = <<>> THEN [path |-> <<>>, commands |-> EmptyMap]
    ELSE Sub(attachy, 1, <<>>, EmptyMap)

\* Attachment(attachy)
NewAttachment(attachy) ==
    Attachment(parse_attachy(attachy).path, parse_attachy(attachy).commands)

(***************************************************************************)
(* Call results.                                                           *)
(***************************************************************************)
Ok(val, arg, alias, lg) ==
    [tag |-> "ok", val |-> val, arg |-> arg, alias |-> alias,
     exc |-> "", log |-> lg]

Raise(exc, arg, lg) ==
    [tag |-> "exc", val |-> NoneV, arg |-> arg, alias |-> FALSE,
     exc |-> exc, log |-> lg]

\* a function that returns its (possibly mutated) argument object
Same(att, lg) == Ok(att, att, TRUE, lg)

(***************************************************************************)
(* The registries (process-wide, filled when the modules are imported).    *)
(***************************************************************************)
\* _loaders, in registration order of load.py (the loaders modelled)
LoaderNames == {"csv_to_pandas", "pdf_to_pdfplumber", "text_to_string",
                "zip_to_images"}

\* _adapters of adapt.py
AdapterNames == {"openai_chat", "openai_response", "claude", "openai", "dspy"}

\* the members of the archive that zip_to_images expands
ZipMembers == << <<"i1", ".png">>, <<"i2", ".png">> >>

\* the one directory of the file system modelled, and the files in it
\* (att._file_paths)
DirPath == <<"dir">>
DirFiles == << <<"a", ".pdf">>, <<"e", ".bin">> >>

\* the content of a readable text file
FileText == <<"c">>

\* matchers.csv_match, pdf_match, text_match, zip_match
LoaderMatch(name, att) ==
    CASE name = "csv_to_pandas"     -> endswith(att.path, {".csv"})
      [] name = "pdf_to_pdfplumber" -> endswith(att.path, {".pdf"})
      [] name = "text_to_string"    ->
             endswith(att.path, {".txt", ".md", ".log", ".json", ".py"})
      [] name = "zip_to_images"     -> endswith(att.path, {".zip"})
      [] name = "directory_to_structure" -> att.path = DirPath

\* csv_to_pandas: pd.read_csv raises when the file cannot be read
csv_to_pandas(att, e) ==
    IF att.path \in e.readable
    THEN Same([att EXCEPT !.obj = "DataFrame"], <<"csv_to_pandas">>)
    ELSE Raise("csv_to_pandas", att, <<"csv_to_pandas">>)

\* pdf_to_pdfplumber: opens a rewritten temporary copy when pypdf works,
\* the original file otherwise
pdf_to_pdfplumber(att, e) ==
    IF att.path \notin e.readable
    THEN Raise("pdf_to_pdfplumber", att, <<"pdf_to_pdfplumber">>)
    ELSE IF e.pypdf
    THEN Same([att EXCEPT !.obj = "PDF",
                          !.metadata = DictSet(@, "temp_pdf_path", <<"tmp">>)],
              <<"pdf_to_pdfplumber">>)
    ELSE Same([att EXCEPT !.obj = "PDF"], <<"pdf_to_pdfplumber">>)

\* text_to_string: payload and text are both the file's content
text_to_string(att, e) ==
    IF att.path \in e.readable
    THEN Same([att EXCEPT !.obj = "str", !.text = FileText],
              <<"text_to_string">>)
    ELSE Raise("text_to_string", att, <<"text_to_string">>)

\* zip_to_images: one new Attachment per image member, with a copy of the
\* parent's commands; returns a collection
zip_to_images(att, e) ==
    IF att.path \in e.readable
    THEN Ok(AttachmentCollection(
              [i \in 1..Len(ZipMembers) |->
                 [Attachment(ZipMembers[i], att.commands) EXCEPT
                     !.obj = "Image",
                     !.metadata = DictSet(EmptyMap, "from_zip", att.path)]]),
            att, FALSE, <<"zip_to_images">>)
    ELSE Raise("zip_to_images", att, <<"zip_to_images">>)

\* directory_to_structure: the payload is the structure record, and
\* att._file_paths the files found
directory_to_structure(att, e) ==
    IF att.path \in e.readable
    THEN Same([att EXCEPT !.obj = "dict"], <<"directory_to_structure">>)
    ELSE Raise("directory_to_structure", att, <<"directory_to_structure">>)

\* the function registered under a loader's name
LoaderFn(name, att, e) ==
    CASE name = "csv_to_pandas"     -> csv_to_pandas(att, e)
      [] name = "pdf_to_pdfplumber" -> pdf_to_pdfplumber(att, e)
      [] name = "text_to_string"    -> text_to_string(att, e)
      [] name = "zip_to_images"     -> zip_to_images(att, e)
      [] name = "directory_to_structure" -> directory_to_structure(att, e)

\* Attachment(s) for a string s
FromString(input) == NewAttachment(input.s)

\* Attachment(input_) if isinstance(input_, str) else input_
AsAttachment(input) == IF input.kind = "str" THEN FromString(input) ELSE input

\* the result r of a call made on AsAttachment(input), as the caller that
\* passed input sees it: an artifact made from a string is a new object
ForInput(input, r) ==
    IF input.kind = "str" THEN [r EXCEPT !.arg = input, !.alias = FALSE]
    ELSE r

\* the loader wrapper without the test that skips an artifact already loaded
LoaderWrapperNoSkip(name, input, e) ==
    ForInput(input,
             IF LoaderMatch(name, AsAttachment(input))
             THEN LoaderFn(name, AsAttachment(input), e)
             ELSE Same(AsAttachment(input), <<>>))

\* VerbNamespace._make_loader_wrapper: wrapper(input_)
LoaderWrapper(name, input, e) ==
    ForInput(input,
             IF AsAttachment(input).obj # "None"
             THEN Same(AsAttachment(input), <<>>)
             ELSE IF LoaderMatch(name, AsAttachment(input))
             THEN LoaderFn(name, AsAttachment(input), e)
             ELSE Same(AsAttachment(input), <<>>))


(***************************************************************************)
(* Type dispatch of modifiers and presenters.                              *)
(*                                                                         *)
(* A registry entry of _modifiers / _presenters is a list of handlers      *)
(* (expected_type, handler_fn) in registration order.  expected_type is    *)
(* None (kind "none"), a string annotation 'module.Class' (kind "str",     *)
(* name = the dotted components, each a tokenised string) or a class       *)
(* (kind "class").  The runtime type name of a payload is a tokenised      *)
(* string, e.g. <<"Png", "Image", "File">>.                                *)
(***************************************************************************)
NoType == [kind |-> "none"]
StrType(components) == [kind |-> "str", name |-> components]
ClassType(cls) == [kind |-> "class", cls |-> cls]

\* type(att._obj).__name__ of the payloads modelled
TypeName(obj) ==
    CASE obj = "PDF"       -> <<"PDF">>
      [] obj = "Image"     -> <<"Png", "Image", "File">>
      [] obj = "DataFrame" -> <<"Data", "Frame">>
      [] obj = "str"       -> <<"str">>
      [] OTHER             -> <<obj>>

\* sub in s, for tokenised strings
Contains(sub, s) ==
    \E i \in 1..(Len(s) - Len(sub) + 1) : SubSeq(s, i, i + Len(sub) - 1) = sub

\* the test of lines 674-679: a string annotation matches when its last
\* dotted component occurs in the payload's type name; a class matches by
\* isinstance
TypeMatches(expected_type, obj) ==
    IF expected_type.kind = "str"
    THEN LET expected_class_name == expected_type.name[Len(expected_type.name)]
         IN  Contains(expected_class_name, TypeName(obj))
             \/ TypeName(obj) = expected_class_name
    ELSE expected_type.kind = "class" /\ expected_type.cls = obj

\* the name under which the i-th handler of an entry appears in the log
HName(i) == <<"h1", "h2", "h3", "h4">>[i]

\* str.lower() of a command value
Lower(s) ==
    [i \in 1..Len(s) |-> IF s[i] \in {"False", "FALSE"} THEN "false" ELSE s[i]]

\* _detect_presenter_category for the presenter names modelled: a name
\* holding an image pattern is an image presenter, any other a text one
DetectCategory(name) ==
    IF name \in {"images", "thumbnails"} THEN "image" ELSE "text"

\* lines 388-392: the category given to @presenter, else the detected one
Category(h) ==
    IF h.category = "None" THEN DetectCategory(h.name) ELSE h.category

\* the function a presenter decorates: a text presenter appends to the
\* text, an image presenter to the images
PresenterFn(name, category, att) ==
    IF category = "image"
    THEN Same([att EXCEPT !.images = @ \o <<name>>], <<name>>)
    ELSE Same([att EXCEPT !.text = @ \o <<name>>], <<name>>)

\* lines 406-418: the presenter preferred for a format command
PreferredPresenter(text_format, presenter_name) ==
    IF text_format \in {<<"plain">>, <<"text">>, <<"txt">>} THEN "text"
    ELSE IF text_format \in {<<"markdown">>, <<"md">>} THEN "markdown"
    ELSE IF text_format \in {<<"code">>, <<"structured">>, <<"html">>,
                             <<"xml">>, <<"json">>}
            /\ presenter_name \in {"html", "xml", "csv"}
    THEN presenter_name
    ELSE "markdown"

\* lines 426-442: the preferred presenter has a handler registered for the
\* type of the payload, fallback handlers not counted
PreferredExists(registry, preferred_presenter, obj) ==
    /\ preferred_presenter \in DOMAIN registry
    /\ \E i \in 1..Len(registry[preferred_presenter]) :
           /\ registry[preferred_presenter][i].type.kind # "none"
           /\ TypeMatches(registry[preferred_presenter][i].type, obj)

\* the format gate of lines 404-450: TRUE when the presenter is skipped
FormatGate(h, att) ==
    /\ Category(h) = "text"
    /\ h.name \in {"text", "markdown"}
    /\ h.name # PreferredPresenter(DictGet(att.commands, "format",
                                           <<"markdown">>), h.name)
    /\ att.obj # "None" =>
           PreferredExists(h.registry,
                           PreferredPresenter(DictGet(att.commands, "format",
                                                      <<"markdown">>), h.name),
                           att.obj)

\* the modality gate comparing the command as it is written
ImageGateExact(h, att) ==
    /\ Category(h) = "image"
    /\ DictGet(att.commands, "images", <<"true">>) = <<"false">>

\* the modality gate of lines 395-401: TRUE when the presenter is skipped
ImageGate(h, att) ==
    /\ Category(h) = "image"
    /\ Lower(DictGet(att.commands, "images", <<"true">>)) = <<"false">>

\* a wrapper that applies no format gate
smart_presenter_wrapper_ungated(h, att) ==
    IF ImageGate(h, att) THEN Same(att, <<>>)
    ELSE PresenterFn(h.name, Category(h), att)

\* presenter.smart_presenter_wrapper: h holds the name and the category of
\* the decorated function and the registry _presenters it reads
smart_presenter_wrapper(h, att) ==
    IF ImageGate(h, att) \/ FormatGate(h, att) THEN Same(att, <<>>)
    ELSE PresenterFn(h.name, Category(h), att)

\* a registered handler function, called as handler_fn(att) or
\* handler_fn(att, att._obj); i is its position in the registry entry.
\* Behaviours: "mark" appends to the text and returns the artifact,
\* "typeerr" raises TypeError or AttributeError, "valueerr" raises another
\* exception, "present" is a presenter in its smart wrapper.
HandlerFn(h, i, att) ==
    CASE h.beh = "present"  -> smart_presenter_wrapper(h, att)
      [] h.beh = "mark"     ->
             Same([att EXCEPT !.text = @ \o <<HName(i)>>], <<HName(i)>>)
      [] h.beh = "typeerr"  -> Raise("TypeError", att, <<HName(i)>>)
      [] h.beh = "valueerr" -> Raise("ValueError", att, <<HName(i)>>)

\* the result r of a call, with the functions invoked before it in the log
After(lg, r) == [r EXCEPT !.log = lg \o @]

\* the first handler registered with no type requirement, or 0
FirstNull(handlers) ==
    IF \E i \in 1..Len(handlers) : handlers[i].type.kind = "none"
    THEN CHOOSE i \in 1..Len(handlers) :
            /\ handlers[i].type.kind = "none"
            /\ \A j \in 1..(i - 1) : handlers[j].type.kind # "none"
    ELSE 0

\* lines 660-663 and 685-689: the fallback handler if present, else att
DispatchFallback(handlers, att, lg) ==
    IF FirstNull(handlers) = 0 THEN Same(att, lg)
    ELSE After(lg, HandlerFn(handlers[FirstNull(handlers)],
                             FirstNull(handlers), att))

\* lines 668-682: the loop over the typed handlers from position i on; a
\* TypeError or AttributeError raised inside the try block (by the type
\* test or by the handler itself) moves on to the next handler
RECURSIVE DispatchTyped(_, _, _, _)
RECURSIVE HandlerOutcome(_, _, _, _)
DispatchTyped(handlers, i, att, lg) ==
    IF i > Len(handlers) THEN DispatchFallback(handlers, att, lg)
    ELSE IF handlers[i].type.kind # "none"
            /\ TypeMatches(handlers[i].type, att.obj)
    THEN HandlerOutcome(handlers, i, lg, HandlerFn(handlers[i], i, att))
    ELSE DispatchTyped(handlers, i + 1, att, lg)

\* line 678-682: r is what the matching handler i did
HandlerOutcome(handlers, i, lg, r) ==
    IF r.tag = "exc" /\ r.exc = "TypeError"
    THEN DispatchTyped(handlers, i + 1, r.arg, lg \o r.log)
    ELSE After(lg, r)

\* VerbNamespace._make_dispatch_wrapper: wrapper(att)
DispatchWrapper(handlers, att) ==
    IF att.obj = "None" THEN DispatchFallback(handlers, att, <<>>)
    ELSE DispatchTyped(handlers, 1, att, <<>>)


(***************************************************************************)
(* Refiners and adapters.                                                  *)
(***************************************************************************)
\* sep.join(strings)
RECURSIVE Join(_, _)
Join(sep, strings) ==
    IF strings = <<>> THEN <<>>
    ELSE IF Len(strings) = 1 THEN strings[1]
    ELSE strings[1] \o sep \o Join(sep, Tail(strings))

\* the join keeping the members without text
JoinTextsAll(atts) ==
    Join(<<"\n\n">>, [i \in 1..Len(atts) |-> atts[i].text])

\* "\n\n".join(att.text for att in attachments if att.text)
JoinTexts(atts) ==
    Join(<<"\n\n">>,
         SelectSeq([i \in 1..Len(atts) |-> atts[i].text],
                   LAMBDA t : t # <<>>))

\* [img for att in attachments for img in att.images]
RECURSIVE ConcatImages(_)
ConcatImages(atts) ==
    IF atts = <<>> THEN <<>>
    ELSE Head(atts).images \o ConcatImages(Tail(atts))

\* [audio for att in attachments for audio in att.audio]
RECURSIVE ConcatAudio(_)
ConcatAudio(atts) ==
    IF atts = <<>> THEN <<>>
    ELSE Head(atts).audio \o ConcatAudio(Tail(atts))

\* AttachmentCollection.to_attachment
to_attachment(coll) ==
    IF coll.attachments = <<>> THEN Attachment(<<>>, EmptyMap)
    ELSE [Attachment(<<>>, EmptyMap) EXCEPT
            !.text = JoinTexts(coll.attachments),
            !.images = ConcatImages(coll.attachments),
            !.audio = ConcatAudio(coll.attachments),
            !.metadata =
                [k \in {"collection_size", "combined_from"} |->
                    IF k = "collection_size"
                    THEN Len(coll.attachments)
                    ELSE [i \in 1..Len(coll.attachments) |->
                             coll.attachments[i].path]]]

\* adapt._handle_collection
handle_collection(input_obj) ==
    IF isCollection(input_obj) THEN to_attachment(input_obj) ELSE input_obj


\* the tile specifications that parse as "<cols>x<rows>" or "<n>"
ValidTile == {<<"2x2">>, <<"3x1">>, <<"2">>}

\* refine.tile_images: a new artifact holding the tiled image of the
\* collection's image payloads; a single artifact is returned as it is;
\* every error inside is re-raised as ValueError
tile_images(collection) ==
    IF isCollection(collection)
    THEN IF \E i \in 1..Len(collection.attachments) :
                ~isAttachment(collection.attachments[i])
         THEN Raise("ValueError", collection, <<"tile_images">>)
         ELSE LET images == SelectSeq(collection.attachments,
                                      LAMBDA a : a.obj = "Image")
              IN  IF images = <<>>
                  THEN Ok(Attachment(<<>>, EmptyMap), collection, FALSE,
                          <<"tile_images">>)
                  ELSE IF DictGet(collection.attachments[1].commands, "tile",
                                  <<"2x2">>) \notin ValidTile
                  THEN Raise("ValueError", collection, <<"tile_images">>)
                  ELSE Ok([Attachment(<<>>, EmptyMap) EXCEPT
                             !.obj = "Image",
                             !.images = <<"tiled">>,
                             !.metadata =
                                 [k \in {"operation", "original_count"} |->
                                     IF k = "operation"
                                     THEN <<"tile_images">>
                                     ELSE Len(images)]],
                          collection, FALSE, <<"tile_images">>)
    ELSE Same(collection, <<"tile_images">>)

\* an adapter (adapt.py): folds a collection, then builds the provider's
\* message list from the artifact and the prompt; the result is not an
\* artifact
AdapterFn(name, input_obj, args) ==
    IF isCollection(input_obj)
       /\ \E i \in 1..Len(input_obj.attachments) :
             ~isAttachment(input_obj.attachments[i])
    THEN Raise("AttributeError", input_obj, <<name>>)
    ELSE Ok([kind |-> "other", by |-> name, of |-> handle_collection(input_obj),
             args |-> args],
            input_obj, FALSE, <<name>>)

\* the behaviours of the other registered refiners, called on an artifact:
\*   mark       appends to the text and returns the artifact
\*   none       returns nothing
\*   adapt      returns a value that is neither an artifact nor a set
\*   raise      raises before it changes anything
\*   markraise  appends to the text, then raises
\*   split      returns a collection of two new artifacts
\*   skip       returns nothing for an artifact without text, else as mark
Behaviours == {"mark", "none", "adapt", "raise", "markraise", "split", "skip"}

Behave(beh, name, att) ==
    CASE beh = "mark"      ->
             Same([att EXCEPT !.text = @ \o <<name>>], <<name>>)
      [] beh = "none"      -> Ok(NoneV, att, FALSE, <<name>>)
      [] beh = "skip"      ->
             IF att.text = <<>> THEN Ok(NoneV, att, FALSE, <<name>>)
             ELSE Same([att EXCEPT !.text = @ \o <<name>>], <<name>>)
      [] beh = "adapt"     ->
             Ok([kind |-> "other", by |-> name, of |-> att, args |-> <<>>],
                att, FALSE, <<name>>)
      [] beh = "raise"     -> Raise(name, att, <<name>>)
      [] beh = "markraise" ->
             Raise(name, [att EXCEPT !.text = @ \o <<name>>], <<name>>)
      [] beh = "split"     ->
             Ok(AttachmentCollection(
                  <<[Attachment(att.path \o <<"#1">>, att.commands)
                        EXCEPT !.text = <<name>>],
                    [Attachment(att.path \o <<"#2">>, att.commands)
                        EXCEPT !.text = <<name>>]>>),
                att, FALSE, <<name>>)


(***************************************************************************)
(* VerbFunction and the namespace handles.                                 *)
(***************************************************************************)
\* an adapter registered after import with @adapter
CustomAdapters == {"my_adapter"}

\* the function registered in _refiners or _adapters under a name, reached
\* through VerbNamespace._make_adapter_wrapper
RegisteredFn(name, v, args, e) ==
    IF name = "tile_images" THEN tile_images(v)
    ELSE IF name \in AdapterNames \cup CustomAdapters
    THEN AdapterFn(name, v, args)
    ELSE Behave(e.beh[name], name, v)

\* VerbNamespace.__getattr__: the wrapper chosen by the shape of the entry
LoaderHandle(name) ==
    VerbFunction([reg |-> "loader", name |-> name], name, <<>>, TRUE)

DispatchHandle(name) ==
    VerbFunction([reg |-> "dispatch", name |-> name], name, <<>>, FALSE)

AdapterHandle(name) ==
    VerbFunction([reg |-> "adapter", name |-> name], name, <<>>, FALSE)

\* self.func(att, *args)
CallFunc(func, v, args, e) ==
    CASE func.reg = "loader"   -> LoaderWrapper(func.name, v, e)
      [] func.reg = "dispatch" -> DispatchWrapper(e.handlers, v)
      [] func.reg = "adapter"  -> RegisteredFn(func.name, v, args, e)

\* str(x) of a call argument
Str(x) == IF x.kind = "str" THEN x.s ELSE <<"<", x.kind, ">">>

\* VerbFunction._apply_with_args: an adapter wrapper (variadic) gets the
\* arguments; any other verb gets its first argument as a command
apply_with_args(vf, att, args, e) ==
    IF vf.func.reg = "adapter"
    THEN CallFunc(vf.func, att, args, e)
    ELSE CallFunc(vf.func,
                  [att EXCEPT !.commands = DictSet(@, vf.name, Str(args[1]))],
                  <<>>, e)

\* VerbFunction.__call__ with one positional argument
VerbCall(vf, v, e) ==
    IF isAttachment(v) /\ vf.args = <<>>
    THEN CallFunc(vf.func, v, <<>>, e)
    ELSE IF isAttachment(v)
    THEN apply_with_args(vf, v, vf.args, e)
    ELSE IF v.kind = "str" /\ vf.is_loader /\ vf.args = <<>>
    THEN ForInput(v, CallFunc(vf.func, FromString(v), <<>>, e))
    ELSE Ok(VerbFunction(vf.func, vf.name, vf.args \o <<v>>, vf.is_loader),
            v, FALSE, <<>>)


(***************************************************************************)
(* Pipelines.                                                              *)
(***************************************************************************)
\* Pipeline.__init__
Pipeline(steps, fallback_pipelines) ==
    [kind |-> "pipeline", steps |-> steps,
     fallback_pipelines |-> fallback_pipelines]

\* AdditivePipeline.__init__
AdditivePipeline(steps) == [kind |-> "additive", steps |-> steps]

isPipeline(v) == v.kind = "pipeline"

\* Pipeline.__or__
PipelineOr(self, other) ==
    IF isPipeline(other)
    THEN IF self.steps # <<>> /\ other.steps # <<>>
         THEN Pipeline(self.steps, <<other>> \o other.fallback_pipelines)
         ELSE IF self.steps = <<>>
         THEN other
         ELSE Pipeline(self.steps \o other.steps, other.fallback_pipelines)
    ELSE Pipeline(self.steps \o <<other>>, self.fallback_pipelines)

\* VerbFunction.__or__
VerbOr(self, other) == PipelineOr(Pipeline(<<self>>, <<>>), other)

RECURSIVE Call(_, _, _)
RECURSIVE execute_steps(_, _, _, _, _, _)
RECURSIVE StepOutcome(_, _, _, _, _, _)
RECURSIVE TryFallbacks(_, _, _, _, _)
RECURSIVE FallbackOutcome(_, _, _, _, _)
RECURSIVE AdditiveSteps(_, _, _, _, _, _)
RECURSIVE AdditiveOutcome(_, _, _, _, _, _)

\* Pipeline._execute_steps from the first of `steps` on.  result is the
\* current value of the local variable, inp the state of the object the
\* pipeline was called with, alias whether result is that object.
execute_steps(result, steps, inp, alias, lg, e) ==
    IF steps = <<>> THEN Ok(result, inp, alias, lg)
    ELSE StepOutcome(Call(Head(steps), result, e), Tail(steps),
                     inp, alias, lg, e)

\* the loop without the early return on a value that is not an artifact
StepOutcomeNoExit(r, rest, inp, alias, lg, e) ==
    IF r.tag = "exc"
    THEN Raise(r.exc, IF alias THEN r.arg ELSE inp, lg \o r.log)
    ELSE execute_steps(r.val, rest, IF alias THEN r.arg ELSE inp,
                       alias /\ r.alias, lg \o r.log, e)

\* lines 55-62: r is what the step did, rest are the steps after it
StepOutcome(r, rest, inp, alias, lg, e) ==
    IF r.tag = "exc"
    THEN Raise(r.exc, IF alias THEN r.arg ELSE inp, lg \o r.log)
    ELSE IF isNone(r.val)
    THEN execute_steps(r.val, rest, IF alias THEN r.arg ELSE inp, FALSE,
                       lg \o r.log, e)
    ELSE IF ~(isAttachment(r.val) \/ isCollection(r.val))
    THEN Ok(r.val, IF alias THEN r.arg ELSE inp, FALSE, lg \o r.log)
    ELSE execute_steps(r.val, rest, IF alias THEN r.arg ELSE inp,
                       alias /\ r.alias, lg \o r.log, e)

\* the loop of Pipeline.__call__ over the fallback pipelines, after the main
\* steps raised exc
TryFallbacks(fallbacks, input, exc, lg, e) ==
    IF fallbacks = <<>> THEN Raise(exc, input, lg)
    ELSE FallbackOutcome(Call(Head(fallbacks), input, e), Tail(fallbacks),
                         exc, lg, e)

\* the loop re-raising the error of the fallback tried last
FallbackOutcomeLastError(r, rest, exc, lg, e) ==
    IF r.tag = "ok" THEN After(lg, r)
    ELSE TryFallbacks(rest, r.arg, r.exc, lg \o r.log, e)

\* lines 45-48: r is what the fallback did
FallbackOutcome(r, rest, exc, lg, e) ==
    IF r.tag = "ok" THEN After(lg, r)
    ELSE TryFallbacks(rest, r.arg, exc, lg \o r.log, e)

\* lines 40-50: r is what the main steps did
MainOutcome(self, r, e) ==
    IF r.tag = "ok" THEN r
    ELSE TryFallbacks(self.fallback_pipelines, r.arg, r.exc, r.log, e)

\* Pipeline.__call__
PipelineCall(self, input, e) ==
    MainOutcome(self,
                execute_steps(AsAttachment(input), self.steps, input,
                              input.kind # "str", <<>>, e),
                e)

\* the loop of AdditivePipeline.__call__
AdditiveSteps(result, steps, inp, alias, lg, e) ==
    IF steps = <<>> THEN Ok(result, inp, alias, lg)
    ELSE AdditiveOutcome(Call(Head(steps), result, e), Tail(steps),
                         inp, alias, lg, e)

\* lines 101-103: r is what the step did
AdditiveOutcome(r, rest, inp, alias, lg, e) ==
    IF r.tag = "exc"
    THEN Raise(r.exc, IF alias THEN r.arg ELSE inp, lg \o r.log)
    ELSE AdditiveSteps(r.val, rest, IF alias THEN r.arg ELSE inp,
                       alias /\ r.alias, lg \o r.log, e)

\* AdditivePipeline.__call__
AdditiveCall(self, input, e) ==
    AdditiveSteps(AsAttachment(input), self.steps, input,
                  input.kind # "str", <<>>, e)

\* calling a step: a VerbFunction, a Pipeline or an AdditivePipeline
Call(step, v, e) ==
    CASE step.kind = "verbfn"   -> VerbCall(step, v, e)
      [] step.kind = "pipeline" -> PipelineCall(step, v, e)
      [] step.kind = "additive" -> AdditiveCall(step, v, e)


(***************************************************************************)
(* The | operator on artifacts and on collections.                         *)
(***************************************************************************)
\* getattr(verb, '__name__', str(verb))
NameOf(verb) ==
    IF verb.kind = "verbfn" THEN verb.name ELSE <<"<", verb.kind, ">">>

\* result.pipeline.append(name) on every artifact of a collection
AppendTrace(atts, name) ==
    [i \in 1..Len(atts) |->
        IF isAttachment(atts[i])
        THEN [atts[i] EXCEPT !.pipeline = Append(@, name)]
        ELSE atts[i]]

\* lines 228-236: r is what verb(self) did
TraceAppended(r, name) ==
    IF r.tag = "exc" THEN r
    ELSE IF isNone(r.val)
    THEN Same([r.arg EXCEPT !.pipeline = Append(@, name)], r.log)
    ELSE IF isAttachment(r.val) /\ r.alias
    THEN Same([r.val EXCEPT !.pipeline = Append(@, name)], r.log)
    ELSE IF isAttachment(r.val)
    THEN Ok([r.val EXCEPT !.pipeline = Append(@, name)], r.arg, FALSE, r.log)
    ELSE IF isCollection(r.val)
    THEN Ok(AttachmentCollection(AppendTrace(r.val.attachments, name)),
            r.arg, FALSE, r.log)
    ELSE r

\* Attachment.__or__
AttachmentOr(self, verb, e) ==
    IF isPipeline(verb) THEN PipelineCall(verb, self, e)
    ELSE TraceAppended(Call(verb, self, e), NameOf(verb))

\* the names AttachmentCollection._is_reducer lists
reducing_operations ==
    {"tile_images", "combine_images", "merge_text",
     "claude", "openai_chat", "openai_response"}

\* AttachmentCollection._is_reducer: only an operation with a name attribute
\* (a VerbFunction) can be a reducer
is_reducer(operation) ==
    operation.kind = "verbfn" /\ operation.name \in reducing_operations

\* the vectorising loop of AttachmentCollection.__or__ from element i on:
\* done are the elements visited (as the calls left them), results the
\* values collected
RECURSIVE MapOver(_, _, _, _, _, _, _)
RECURSIVE MapOutcome(_, _, _, _, _, _, _, _)
MapOver(atts, i, operation, done, results, lg, e) ==
    IF i > Len(atts)
    THEN Ok(AttachmentCollection(results), AttachmentCollection(done),
            FALSE, lg)
    ELSE MapOutcome(Call(operation, atts[i], e), atts, i, operation, done,
                    results, lg, e)

\* lines 139-141: r is what operation(att) did for element i
MapOutcome(r, atts, i, operation, done, results, lg, e) ==
    IF r.tag = "exc"
    THEN Raise(r.exc,
               AttachmentCollection(Append(done, r.arg)
                                    \o SubSeq(atts, i + 1, Len(atts))),
               lg \o r.log)
    ELSE MapOver(atts, i + 1, operation, Append(done, r.arg),
                 IF isNone(r.val) THEN results ELSE Append(results, r.val),
                 lg \o r.log, e)

\* AttachmentCollection.__or__
CollectionOr(self, operation, e) ==
    IF is_reducer(operation)
    THEN Call(operation, self, e)
    ELSE MapOver(self.attachments, 1, operation, <<>>, <<>>, <<>>, e)


(***************************************************************************)
(* Loader chains:  att | load.x | load.y | ...                             *)
(***************************************************************************)
Paths == {<<"a", ".pdf">>, <<"b", ".csv">>, <<"c", ".txt">>, <<"d", ".zip">>,
          <<"e", ".bin">>}

\* the registry entry of the dispatched verb and the registered behaviours
\* when a scenario does not use them
NoHandlers == <<>>
NoBeh == [n \in {} |-> "mark"]

\* the number of verbs applied so far
Steps == last.n

\* the caller's  cur = cur | verb  : Attachment.__or__ or
\* AttachmentCollection.__or__ by the class of cur
PipeResult(v, verb, e) ==
    IF isAttachment(v) THEN AttachmentOr(v, verb, e)
    ELSE CollectionOr(v, verb, e)

\* the caller after a call that did r: it holds the returned value, or,
\* after an exception, the object it passed
Returned(r) ==
    /\ cur' = IF r.tag = "ok" THEN r.val ELSE r.arg
    /\ status' = IF r.tag = "ok" THEN "run" ELSE "raised"
    /\ log' = r.log
    /\ error' = r.exc

InitLoaders ==
    /\ cur \in {Attachment(p, EmptyMap) : p \in Paths}
    /\ status = "run"
    /\ last = [op |-> "init", name |-> "", n |-> 0]
    /\ log = <<>>
    /\ error = ""
    /\ env \in [readable : {{}}, pypdf : BOOLEAN,
                beh : {NoBeh}, handlers : {NoHandlers}]

\* cur = cur | load.<name>, the files in rd being readable at that moment
Load(name, rd) ==
    /\ status = "run"
    /\ Steps < MaxChain
    /\ isAttachment(cur) \/ isCollection(cur)
    /\ env' = [env EXCEPT !.readable = rd]
    /\ Returned(PipeResult(cur, LoaderHandle(name), env'))
    /\ last' = [op |-> "load", name |-> name, n |-> Steps + 1]

NextLoaders == \E name \in LoaderNames, rd \in {{}, Paths} : Load(name, rd)

SpecLoaders == InitLoaders /\ [][NextLoaders]_vars

\* the fields of an artifact a loader fills
SameContent(a, b) ==
    /\ a.obj = b.obj
    /\ a.text = b.text
    /\ a.images = b.images
    /\ a.metadata = b.metadata
    /\ a.commands = b.commands

\* C2: a loader applied to an artifact whose payload is already set, or
\* whose path its predicate rejects, returns that artifact with payload,
\* text, images, metadata and commands unchanged and without raising; so
\* once a loader has set the payload no later loader of the chain changes
\* the artifact.
C2_LoaderNoOp ==
    [][(/\ last'.op = "load"
        /\ isAttachment(cur)
        /\ cur.obj # "None" \/ ~LoaderMatch(last'.name, cur))
       => (/\ isAttachment(cur')
           /\ SameContent(cur, cur')
           /\ status' = "run"
           /\ log' = <<>>)]_vars

\* a second matching loader was applied after the payload was set, at a
\* moment when the file could no longer be read
C2_Witness ==
    /\ isAttachment(cur)
    /\ cur.obj = "PDF"
    /\ last.op = "load"
    /\ last.n >= 2
    /\ LoaderMatch(last.name, cur)
    /\ env.readable = {}
    /\ status = "run"


(***************************************************************************)
(* Dispatch of a modifier:  att | modify.pages  and                        *)
(* att | modify.pages(arg), for every registry entry of up to MaxHandlers  *)
(* handlers.                                                               *)
(***************************************************************************)
HandlerTypes ==
    {NoType,
     StrType(<< <<"pdfplumber">>, <<"PDF">> >>),
     StrType(<< <<"PIL">>, <<"Image">>, <<"Image">> >>),
     ClassType("DataFrame")}

HandlerBehaviours == {"mark", "typeerr", "valueerr"}

Handlers == [type : HandlerTypes, beh : HandlerBehaviours]

\* the lists of handlers registered under one name
Registries ==
    UNION {[1..n -> Handlers] : n \in 1..MaxHandlers}

Payloads == {"None", "PDF", "Image", "DataFrame", "str"}

InitDispatch ==
    /\ cur \in {[Attachment(<<"f">>, EmptyMap) EXCEPT !.obj = o] :
                  o \in Payloads}
    /\ status = "run"
    /\ last = [op |-> "init", name |-> "", n |-> 0, before |-> NoneV]
    /\ log = <<>>
    /\ error = ""
    /\ env \in [readable : {{}}, pypdf : {FALSE}, beh : {NoBeh},
                handlers : Registries]

\* cur = cur | modify.pages
Dispatch ==
    /\ status = "run"
    /\ Steps < 2
    /\ isAttachment(cur)
    /\ Returned(AttachmentOr(cur, DispatchHandle("pages"), env))
    /\ last' = [op |-> "dispatch", name |-> "pages", n |-> Steps + 1,
                before |-> cur]
    /\ UNCHANGED env

\* cur = cur | modify.pages(arg)
DispatchWithArg(arg) ==
    /\ status = "run"
    /\ Steps < 2
    /\ isAttachment(cur)
    /\ Returned(AttachmentOr(cur,
                             VerbCall(DispatchHandle("pages"), StrV(arg),
                                      env).val,
                             env))
    /\ last' = [op |-> "dispatch", name |-> "pages", n |-> Steps + 1,
                before |-> [cur EXCEPT
                               !.commands = DictSet(@, "pages", arg)]]
    /\ UNCHANGED env

NextDispatch == Dispatch \/ \E arg \in {<<"1-3">>} : DispatchWithArg(arg)

SpecDispatch == InitDispatch /\ [][NextDispatch]_vars

\* the positions of the typed handlers whose key matches the payload
MatchingTyped(handlers, obj) ==
    {i \in 1..Len(handlers) :
        /\ handlers[i].type.kind # "none"
        /\ obj # "None"
        /\ TypeMatches(handlers[i].type, obj)}

Min(S) == CHOOSE i \in S : \A j \in S : i <= j

\* the handlers C3 allows a dispatch to invoke
C3_Expected(handlers, obj) ==
    IF MatchingTyped(handlers, obj) # {}
    THEN <<HName(Min(MatchingTyped(handlers, obj)))>>
    ELSE IF FirstNull(handlers) # 0 THEN <<HName(FirstNull(handlers))>>
    ELSE <<>>

\* C3: each dispatch invokes at most one handler: the first handler in
\* registration order whose type key matches the payload's type; when no
\* typed handler matches or the payload is not set, the null fallback if one
\* is registered; otherwise no handler runs and the artifact comes back
\* unchanged.
C3_AtMostOneHandler ==
    last.op = "dispatch" =>
        /\ log = C3_Expected(env.handlers, last.before.obj)
        /\ log = <<>> => (status = "run" /\ SameContent(last.before, cur))


(***************************************************************************)
(* Composing a pipeline with | and calling it.                             *)
(***************************************************************************)
\* the refiners registered besides tile_images, with their behaviours
RegBeh ==
    [n \in {"m1", "m2", "r1", "r2", "mr", "nn", "ad", "sp", "sk"} |->
        CASE n \in {"m1", "m2"} -> "mark"
          [] n \in {"r1", "r2"} -> "raise"
          [] n = "mr"           -> "markraise"
          [] n = "nn"           -> "none"
          [] n = "ad"           -> "adapt"
          [] n = "sp"           -> "split"
          [] n = "sk"           -> "skip"]

StepNames == DOMAIN RegBeh

\* the pipelines given as right operands of |
Operands ==
    {Pipeline(<<AdapterHandle(n)>>, <<>>) : n \in StepNames}
    \cup {Pipeline(<<AdapterHandle("r2")>>,
                   <<Pipeline(<<AdapterHandle("m2")>>, <<>>)>>)}

\* what a pipeline is called with: a string or an artifact
Inputs ==
    {StrV(<<"f">>), Attachment(<<"f">>, EmptyMap),
     [Attachment(<<"g">>, EmptyMap) EXCEPT !.text = <<"t">>]}

InitPipeline ==
    /\ cur = Pipeline(<<>>, <<>>)
    /\ status = "run"
    /\ last = [op |-> "init", name |-> "", n |-> 0, verbs |-> <<>>,
               verbs_only |-> TRUE, parts |-> <<>>, pipeline |-> NoneV, input |-> NoneV]
    /\ log = <<>>
    /\ error = ""
    /\ env = [readable |-> {}, pypdf |-> FALSE, beh |-> RegBeh,
              handlers |-> NoHandlers]

\* cur = cur | refine.<name>
ThenVerb(name) ==
    /\ last.op \in {"init", "then"}
    /\ Steps < MaxOps
    /\ cur' = PipelineOr(cur, AdapterHandle(name))
    /\ last' = [last EXCEPT !.op = "then", !.name = name, !.n = @ + 1,
                            !.verbs = Append(@, name), !.parts = <<>>]
    /\ UNCHANGED <<status, log, error, env>>

\* cur = cur | q  for a pipeline q
ThenPipeline(q) ==
    /\ last.op \in {"init", "then"}
    /\ Steps < MaxOps
    /\ cur' = PipelineOr(cur, q)
    /\ last' = [last EXCEPT !.op = "then", !.name = "", !.n = @ + 1,
                            !.verbs_only = FALSE,
                            !.parts = IF @ = <<>> THEN <<cur, q>>
                                      ELSE Append(@, q)]
    /\ UNCHANGED <<status, log, error, env>>

\* cur = cur(input)
Apply(input) ==
    /\ last.op = "then"
    /\ Returned(PipelineCall(cur, input, env))
    /\ last' = [last EXCEPT !.op = "call", !.pipeline = cur,
                            !.input = input]
    /\ UNCHANGED env

NextPipeline ==
    \/ \E name \in StepNames : ThenVerb(name)
    \/ \E q \in Operands : ThenPipeline(q)
    \/ \E input \in Inputs : Apply(input)

SpecPipeline == InitPipeline /\ [][NextPipeline]_vars


\* the outcome of step i of `steps` when the first step is called with v and
\* every later step with the value the step before it returned
RECURSIVE Fed(_, _, _, _)
Fed(steps, i, v, e) ==
    Call(steps[i], IF i = 1 THEN v ELSE Fed(steps, i - 1, v, e).val, e)

\* step i returned a value that is neither an artifact nor a set (a step
\* that returns None returns no value)
EndsRun(steps, i, v, e) ==
    /\ Fed(steps, i, v, e).tag = "ok"
    /\ Fed(steps, i, v, e).val.kind \notin {"att", "coll", "none"}

\* the first step that ends the run, the last step if none does
StopAt(steps, v, e) ==
    IF \E i \in 1..Len(steps) : EndsRun(steps, i, v, e)
    THEN Min({i \in 1..Len(steps) : EndsRun(steps, i, v, e)})
    ELSE Len(steps)

\* the functions invoked by steps 1..k of the chain
RECURSIVE FedLog(_, _, _, _)
FedLog(steps, k, v, e) ==
    IF k = 0 THEN <<>>
    ELSE FedLog(steps, k - 1, v, e) \o Fed(steps, k, v, e).log

\* the verbs composed with | as namespace handles
VerbsComposed == [i \in 1..Len(last.verbs) |-> AdapterHandle(last.verbs[i])]

\* a pipeline composed of verbs only was called with an artifact and no
\* step raised before the run ended
C1_Case ==
    /\ last.op = "call"
    /\ isAttachment(last.input)
    /\ last.verbs_only
    /\ \A i \in 1..StopAt(VerbsComposed, last.input, env) :
           Fed(VerbsComposed, i, last.input, env).tag = "ok"

\* C1: a pipeline of steps s1..sn applied to an artifact runs the steps in
\* composition order, each step receiving what the step before it returned;
\* the first step that returns a value that is neither an artifact nor a
\* set ends the run: no later step is executed and that value is the
\* pipeline's result.
C1_StepsInOrder ==
    C1_Case =>
        /\ status = "run"
        /\ cur = Fed(VerbsComposed,
                     StopAt(VerbsComposed, last.input, env),
                     last.input, env).val
        /\ log = FedLog(VerbsComposed,
                        StopAt(VerbsComposed, last.input, env),
                        last.input, env)

\* three verbs were composed, the second returned an adapter-like value, the
\* third never ran
C1_Witness ==
    /\ C1_Case
    /\ last.verbs = <<"m1", "ad", "m2">>
    /\ log = <<"m1", "ad">>
    /\ cur.kind = "other"
    /\ cur.of.text = last.input.text \o <<"m1">>

\* (A | B) | C was called, A, B and C each having a step, and A's steps
\* raised
C4_Case ==
    /\ last.op = "call"
    /\ Len(last.parts) = 3
    /\ \A i \in 1..3 : last.parts[i].steps # <<>>
    /\ execute_steps(AsAttachment(last.input), last.parts[1].steps,
                     last.input, last.input.kind # "str", <<>>, env).tag
           = "exc"

\* what C4 describes: A's steps with the fallbacks B, then C
C4_Reference ==
    PipelineCall(Pipeline(last.parts[1].steps,
                          <<last.parts[2], last.parts[3]>>),
                 last.input, env)

RECURSIVE ErrorOfLast(_, _, _)
ErrorOfLast(fallbacks, input, e) ==
    IF Len(fallbacks) = 1 THEN Call(fallbacks[1], input, e).exc
    ELSE ErrorOfLast(Tail(fallbacks), Call(fallbacks[1], input, e).arg, e)

\* what the main steps of the pipeline called did
MainSteps ==
    execute_steps(AsAttachment(last.input), last.pipeline.steps, last.input,
                  last.input.kind # "str", <<>>, env)

\* a pipeline with fallbacks was called and the call raised
C5_Case ==
    /\ last.op = "call"
    /\ status = "raised"
    /\ last.pipeline.fallback_pipelines # <<>>

\* C5 as claimed: when the main steps and every fallback raise, the caller
\* gets the exception of the last fallback tried.
C5_LastFallbackError ==
    C5_Case =>
        error = ErrorOfLast(last.pipeline.fallback_pipelines,
                            MainSteps.arg, env)

\* C5 amended: when the main steps and every fallback raise, the caller gets
\* the exception raised by the main steps; the errors of all the fallbacks
\* are absorbed.
C5_MainError ==
    (last.op = "call" /\ status = "raised") =>
        /\ MainSteps.tag = "exc"
        /\ error = MainSteps.exc

\* the main steps raised r1, the fallback tried last raised r2
C5_Witness ==
    /\ C5_Case
    /\ error = "r1"
    /\ log[Len(log)] = "r2"
    /\ ErrorOfLast(last.pipeline.fallback_pipelines, MainSteps.arg, env) = "r2"


(***************************************************************************)
(* Collections:  S | verb,  S | pipeline,  S.to_attachment(),  adapter(S)  *)
(***************************************************************************)
\* the artifacts a collection starts from: loaded and presented files, one
\* of them without text and without images
Members ==
    {[Attachment(<<"a", ".png">>, EmptyMap) EXCEPT
         !.obj = "Image", !.text = <<"ta">>, !.images = <<"ia">>],
     [Attachment(<<"b", ".txt">>, EmptyMap) EXCEPT !.obj = "str"],
     [Attachment(<<"c", ".png">>, EmptyMap) EXCEPT
         !.obj = "Image", !.text = <<"tc">>, !.images = <<"ic">>]}

Collections ==
    {AttachmentCollection(s) :
        s \in UNION {[1..n -> Members] : n \in 0..MaxSet}}

\* the verbs applied to a collection, as namespace handles
CollectionVerbs ==
    {"m1", "nn", "sk", "sp", "ad", "r1", "tile_images"}
    \cup AdapterNames \cup CustomAdapters

\* the pipelines applied to a collection
CollectionPipelines ==
    {Pipeline(<<AdapterHandle("m1"), AdapterHandle("sk")>>, <<>>),
     Pipeline(<<AdapterHandle("r1")>>,
              <<Pipeline(<<AdapterHandle("m2")>>, <<>>)>>)}

\* every element of the collection is an artifact
AllArtifacts(coll) ==
    \A i \in 1..Len(coll.attachments) : isAttachment(coll.attachments[i])

InitCollection ==
    /\ cur \in Collections
    /\ status = "run"
    /\ last = [op |-> "init", name |-> "", n |-> 0, before |-> NoneV,
               operation |-> NoneV]
    /\ log = <<>>
    /\ error = ""
    /\ env = [readable |-> {}, pypdf |-> FALSE, beh |-> RegBeh,
              handlers |-> NoHandlers]

\* the guard of every step: the caller still holds an artifact or a
\* collection, and the scenario is not over
CanApply ==
    /\ status = "run"
    /\ last.n < MaxOps
    /\ isAttachment(cur) \/ isCollection(cur)

\* cur = cur | refine.name  or  cur | adapt.name
OrVerb(name) ==
    /\ CanApply
    /\ last' = [op |-> "or", name |-> name, n |-> last.n + 1, before |-> cur,
                operation |-> AdapterHandle(name)]
    /\ Returned(PipeResult(cur, AdapterHandle(name), env))
    /\ UNCHANGED env

\* cur = cur | pipeline
OrPipeline(q) ==
    /\ CanApply
    /\ last' = [op |-> "or", name |-> "", n |-> last.n + 1, before |-> cur,
                operation |-> q]
    /\ Returned(PipeResult(cur, q, env))
    /\ UNCHANGED env

\* cur = cur.to_attachment()
Fold ==
    /\ CanApply
    /\ isCollection(cur)
    /\ AllArtifacts(cur)
    /\ last' = [op |-> "fold", name |-> "", n |-> last.n + 1, before |-> cur,
                operation |-> NoneV]
    /\ Returned(Ok(to_attachment(cur), cur, FALSE, <<>>))
    /\ UNCHANGED env

\* cur = name(cur), the adapter function called directly
DirectAdapter(name) ==
    /\ CanApply
    /\ isCollection(cur) => AllArtifacts(cur)
    /\ last' = [op |-> "adapter", name |-> name, n |-> last.n + 1,
                before |-> cur, operation |-> NoneV]
    /\ Returned(AdapterFn(name, cur, <<>>))
    /\ UNCHANGED env

NextCollection ==
    \/ \E name \in CollectionVerbs : OrVerb(name)
    \/ \E q \in CollectionPipelines : OrPipeline(q)
    \/ Fold
    \/ \E name \in AdapterNames \cup CustomAdapters : DirectAdapter(name)

SpecCollection == InitCollection /\ [][NextCollection]_vars


\* the verbs that are neither reducers nor adapters, and the pipelines
NonReducer(operation) ==
    \/ isPipeline(operation)
    \/ operation.kind = "verbfn" /\ operation.name \in StepNames

\* what the operation last applied does on element i of the collection it
\* was applied to
ResultOn(i) == Call(last.operation, last.before.attachments[i], env)

\* a non-reducer was applied to a collection of artifacts and raised on
\* none of them
MapCase ==
    /\ last.op = "or"
    /\ isCollection(last.before)
    /\ AllArtifacts(last.before)
    /\ NonReducer(last.operation)
    /\ \A i \in 1..Len(last.before.attachments) : ResultOn(i).tag = "ok"

\* C6: for every collection S and every non-reducer verb or pipeline P
\* (also one that returns nothing for some element), S | P is a collection
\* with exactly as many elements as S whose i-th element is the result of P
\* on the i-th element of S.
C6_MapKeepsLength ==
    MapCase =>
        /\ status = "run"
        /\ isCollection(cur)
        /\ Len(cur.attachments) = Len(last.before.attachments)
        /\ \A i \in 1..Len(cur.attachments) :
               ~isNone(ResultOn(i).val) =>
                   cur.attachments[i] = ResultOn(i).val

\* the reducer refine.tile_images was applied to a non-empty collection of
\* artifacts it can tile
C7_Case ==
    /\ last.op = "or"
    /\ isCollection(last.before)
    /\ last.before.attachments # <<>>
    /\ AllArtifacts(last.before)
    /\ last.operation = AdapterHandle("tile_images")
    /\ tile_images(last.before).tag = "ok"

\* C7: for every non-empty collection S and every reducer R taken from a
\* namespace handle, S | R executes R once on the collection as a whole and
\* the result is exactly one artifact: not a collection, not a pipeline, not
\* a partially applied verb.
C7_ReducerYieldsOneArtifact ==
    C7_Case =>
        /\ status = "run"
        /\ isAttachment(cur)
        /\ log = <<"tile_images">>

\* an adapter was applied to a collection of artifacts
C8_Case ==
    /\ last.op = "or"
    /\ isCollection(last.before)
    /\ AllArtifacts(last.before)
    /\ last.name \in AdapterNames \cup CustomAdapters

\* C8: every registered adapter, whatever its name, is classified as a
\* reducer when applied to a collection: it is applied to the collection as
\* a whole and never once per element.
C8_AdaptersAreReducers ==
    C8_Case =>
        /\ is_reducer(last.operation)
        /\ Len(log) <= 1

\* the results of a map with the collections among them spliced in
RECURSIVE Spliced(_)
Spliced(i) ==
    IF i = 0 THEN <<>>
    ELSE Spliced(i - 1) \o
         (IF isNone(ResultOn(i).val) THEN <<>>
          ELSE IF isCollection(ResultOn(i).val)
          THEN ResultOn(i).val.attachments
          ELSE <<ResultOn(i).val>>)

\* a non-reducer applied elementwise returned a collection for some element
C9_Case ==
    /\ MapCase
    /\ \E i \in 1..Len(last.before.attachments) :
           isCollection(ResultOn(i).val)

\* C9: when a non-reducer verb applied elementwise to a collection returns
\* a collection for some element, the elements of that collection are
\* spliced into the outer result in place: the result holds only artifacts
\* and never a collection inside a collection.
C9_MapSplices ==
    C9_Case =>
        /\ status = "run"
        /\ isCollection(cur)
        /\ \A j \in 1..Len(cur.attachments) : isAttachment(cur.attachments[j])
        /\ cur.attachments = Spliced(Len(last.before.attachments))

\* the artifact a collection was folded to, by to_attachment or inside an
\* adapter called with the collection
Folded == IF last.op = "fold" THEN cur ELSE cur.of

\* a collection was folded
FoldCase ==
    /\ last.op \in {"fold", "adapter"}
    /\ isCollection(last.before)
    /\ status = "run"

\* the members' text fields in order, separated by a blank line
RECURSIVE AllTexts(_)
AllTexts(atts) ==
    IF atts = <<>> THEN <<>>
    ELSE IF Len(atts) = 1 THEN atts[1].text
    ELSE atts[1].text \o <<"\n\n">> \o AllTexts(Tail(atts))

\* the same leaving out the members without text
RECURSIVE TextsPresent(_)
TextsPresent(atts) ==
    IF atts = <<>> THEN <<>>
    ELSE IF atts[1].text = <<>> THEN TextsPresent(Tail(atts))
    ELSE IF TextsPresent(Tail(atts)) = <<>> THEN atts[1].text
    ELSE atts[1].text \o <<"\n\n">> \o TextsPresent(Tail(atts))

\* the members' images in order
RECURSIVE AllImages(_)
AllImages(atts) ==
    IF atts = <<>> THEN <<>>
    ELSE AllImages(SubSeq(atts, 1, Len(atts) - 1)) \o atts[Len(atts)].images

\* {collection_size: |S|, combined_from: the members' paths in order}
FoldMetadata(atts) ==
    [k \in {"collection_size", "combined_from"} |->
        IF k = "collection_size" THEN Len(atts)
        ELSE [i \in 1..Len(atts) |-> atts[i].path]]

\* C10 as claimed: for every collection S, the empty one and those with
\* members without text included, folding S gives text = the members' text
\* fields in order separated by a blank line, images = the members' images
\* in order, metadata = exactly {collection_size, combined_from}, and an
\* empty path.
C10_FoldAll ==
    FoldCase =>
        /\ Folded.text = AllTexts(last.before.attachments)
        /\ Folded.images = AllImages(last.before.attachments)
        /\ Folded.metadata = FoldMetadata(last.before.attachments)
        /\ Folded.path = <<>>

\* C10 amended: folding a non-empty collection S gives text = the text
\* fields of the members that have text, in order, separated by a blank
\* line, images = the members' images in order, metadata = exactly
\* {collection_size, combined_from}, and an empty path; folding the empty
\* collection gives a new artifact with empty text, images, metadata and
\* path.
C10_Fold ==
    FoldCase =>
        /\ Folded.text = TextsPresent(last.before.attachments)
        /\ Folded.images = AllImages(last.before.attachments)
        /\ Folded.metadata = IF last.before.attachments = <<>> THEN EmptyMap
                             ELSE FoldMetadata(last.before.attachments)
        /\ Folded.path = <<>>

\* a collection of two was folded, its first member without text
C10_Witness ==
    /\ FoldCase
    /\ Len(last.before.attachments) = 2
    /\ last.before.attachments[1].text = <<>>
    /\ last.before.attachments[2].text = <<"tc">>
    /\ Folded.text = <<"tc">>
    /\ Folded.metadata.collection_size = 2


(***************************************************************************)
(* Constructing artifacts from strings:  Attachment(s)                     *)
(***************************************************************************)
\* what an input string is put together from
Pieces ==
    {<<"[">>, <<"]">>, <<":">>, <<"k">>, <<"1">>, <<" ">>,
     <<"[", "k", ":">>,
     <<"[", "k", ":", "k", "]">>, <<"[", "k", ":", "1", "]">>}

InitParse ==
    /\ cur = NoneV
    /\ status = "run"
    /\ last = [op |-> "init", name |-> "", n |-> 0, input |-> <<>>,
               before |-> NoneV]
    /\ log = <<>>
    /\ error = ""
    /\ env = [readable |-> {}, pypdf |-> FALSE, beh |-> NoBeh,
              handlers |-> NoHandlers]

\* the caller extends the string it will pass
TypePiece(p) ==
    /\ last.op \in {"init", "type"}
    /\ last.n < MaxLen
    /\ last' = [last EXCEPT !.op = "type", !.n = @ + 1, !.input = @ \o p]
    /\ UNCHANGED <<cur, status, log, error, env>>

\* cur = Attachment(input)
Construct ==
    /\ last.op \in {"init", "type"}
    /\ last' = [last EXCEPT !.op = "new"]
    /\ cur' = NewAttachment(last.input)
    /\ UNCHANGED <<status, log, error, env>>

\* the orders in which the entries of a dictionary can be written out
Orders(d) ==
    {f \in [1..Cardinality(DOMAIN d) -> DOMAIN d] :
        \A k \in DOMAIN d : \E i \in DOMAIN f : f[i] = k}

\* the path followed by one [key:value] token per command
RECURSIVE Emit(_, _, _)
Emit(path, commands, order) ==
    IF order = <<>> THEN path
    ELSE Emit(path, commands, SubSeq(order, 1, Len(order) - 1))
         \o <<"[">> \o order[Len(order)] \o <<":">>
         \o commands[order[Len(order)]] \o <<"]">>

\* cur = Attachment(path + "[k:v]"...) of the artifact just constructed
Reparse ==
    /\ last.op = "new"
    /\ last' = [last EXCEPT !.op = "reparse", !.before = cur]
    /\ \E order \in Orders(cur.commands) :
           cur' = NewAttachment(Emit(cur.path, cur.commands, order))
    /\ UNCHANGED <<status, log, error, env>>

NextParse ==
    \/ \E p \in Pieces : TypePiece(p)
    \/ Construct
    \/ Reparse

SpecParse == InitParse /\ [][NextParse]_vars

\* [A-Za-z_][A-Za-z0-9_]* over the characters of Pieces
IsIdentifier(key) ==
    /\ key # <<>>
    /\ key[1] = "k"
    /\ \A i \in 1..Len(key) : key[i] \in {"k", "1"}

\* a [key:value] token of the grammar starts at i: as MatchAt, with an
\* identifier as key
TokenAt(s, i) ==
    /\ MatchAt(s, i)
    /\ IsIdentifier(SubSeq(s, i + 1, ColonOf(s, i) - 1))

\* the reference parse: the tokens of the grammar taken left to right, a
\* later key overriding an earlier one, everything else kept in the path
RECURSIVE Reference(_, _, _, _)
Reference(s, i, path, commands) ==
    IF i > Len(s) THEN [path |-> Strip(path), commands |-> commands]
    ELSE IF TokenAt(s, i)
    THEN Reference(s, CloseOf(s, i) + 1, path,
             DictSet(commands, SubSeq(s, i + 1, ColonOf(s, i) - 1),
                     Strip(SubSeq(s, ColonOf(s, i) + 1, CloseOf(s, i) - 1))))
    ELSE Reference(s, i + 1, Append(path, s[i]), commands)

\* C11: for every input string, constructing an artifact never fails and
\* gives the path and the commands of the reference parse: commands holds
\* exactly the [key:value] tokens whose key is an identifier and whose value
\* has no ']', left to right, a later duplicate overriding an earlier one;
\* the path is the input without those tokens, trimmed; every other bracket
\* sequence stays in the path.
C11_ParseIsReference ==
    last.op = "new" =>
        /\ status = "run"
        /\ cur.path = Reference(last.input, 1, <<>>, EmptyMap).path
        /\ cur.commands = Reference(last.input, 1, <<>>, EmptyMap).commands

\* C12: for every input string, writing the parsed path followed by one
\* [key:value] token per command and parsing that string again gives the
\* same path and the same commands.
C12_RoundTrip ==
    last.op = "reparse" =>
        /\ cur.path = last.before.path
        /\ cur.commands = last.before.commands


(***************************************************************************)
(* Presenters applied additively:  att + present.text + present.markdown   *)
(***************************************************************************)
\* the annotations of the presenters of present.py
DataFrameT == StrType(<< <<"pandas">>, <<"Data", "Frame">> >>)
PdfT == StrType(<< <<"pdfplumber">>, <<"PDF">> >>)
ImageT == StrType(<< <<"PIL">>, <<"Image">>, <<"Image">> >>)
SoupT == StrType(<< <<"bs4">>, <<"BeautifulSoup">> >>)

\* an entry of _presenters: the annotation of the second parameter and the
\* category given to the decorator
Entry(type) == [type |-> type, category |-> "None"]

\* _presenters after present.py is imported, for the presenters modelled,
\* each list in registration order
Presenters ==
    [n \in {"markdown", "text", "html", "images", "thumbnails"} |->
        CASE n = "markdown" ->
                 <<Entry(DataFrameT), Entry(PdfT), Entry(ImageT),
                   Entry(NoType), Entry(SoupT)>>
          [] n = "text" ->
                 <<Entry(DataFrameT), Entry(PdfT), Entry(SoupT),
                   Entry(NoType)>>
          [] n = "html" -> <<Entry(SoupT)>>
          [] n = "images" ->
                 <<Entry(ImageT), Entry(PdfT), Entry(NoType), Entry(SoupT)>>
          [] n = "thumbnails" -> <<Entry(PdfT)>>]

\* the handlers of _presenters[name] as the dispatcher calls them: each is
\* the smart wrapper of its function
Wrapped(registry, name) ==
    [i \in 1..Len(registry[name]) |->
        [type |-> registry[name][i].type, beh |-> "present", name |-> name,
         category |-> registry[name][i].category, registry |-> registry]]

\* present.name called with an artifact
PresentCall(name, att, e) ==
    Call(DispatchHandle(name), att,
         [e EXCEPT !.handlers = Wrapped(e.presenters, name)])

\* line 252: r is what other(self) did
AddOutcome(r) ==
    IF r.tag = "ok" /\ isNone(r.val) THEN Same(r.arg, r.log) ELSE r

\* Attachment.__add__ with a presenter handle
AttachmentAdd(self, name, e) == AddOutcome(PresentCall(name, self, e))

\* the payloads, the format commands and the images commands of the
\* artifacts presented
PresentPayloads == {"None", "PDF", "Image", "DataFrame", "BeautifulSoup", "str"}
FormatValues ==
    {<<"plain">>, <<"txt">>, <<"md">>, <<"markdown">>, <<"code">>, <<"rst">>}
ImagesValues == {<<"false">>, <<"False">>, <<"true">>, <<"no">>}

\* the dictionaries with a value from vs under key k, and without k
WithKey(d, k, vs) == {d} \cup {DictSet(d, k, v) : v \in vs}

PresentCommands ==
    UNION {WithKey(d, "images", ImagesValues) :
              d \in WithKey(EmptyMap, "format", FormatValues)}

\* the presenters registered after import
LateEntries ==
    {[name |-> "text", entry |-> Entry(ImageT)],
     [name |-> "thumbnails",
      entry |-> [type |-> ImageT, category |-> "image"]]}

InitPresent ==
    /\ cur \in {[Attachment(<<"f">>, c) EXCEPT !.obj = o] :
                   c \in PresentCommands, o \in PresentPayloads}
    /\ status = "run"
    /\ last = [op |-> "init", name |-> "", n |-> 0, trace |-> <<>>]
    /\ log = <<>>
    /\ error = ""
    /\ env = [readable |-> {}, pypdf |-> FALSE, beh |-> NoBeh,
              handlers |-> NoHandlers, presenters |-> Presenters]

\* cur = cur + present.name
Add(name) ==
    /\ status = "run"
    /\ last.n < MaxOps
    /\ Returned(AttachmentAdd(cur, name, env))
    /\ last' = [op |-> "add", name |-> name, n |-> last.n + 1,
                trace |-> Append(last.trace,
                                 [name |-> name, before |-> cur,
                                  after |-> cur', log |-> log'])]
    /\ UNCHANGED env

\* @presenter applied to one more function
Register(late) ==
    /\ last.n < MaxOps
    /\ late.entry \notin
           {env.presenters[late.name][i] :
               i \in 1..Len(env.presenters[late.name])}
    /\ env' = [env EXCEPT !.presenters[late.name] = Append(@, late.entry)]
    /\ last' = [last EXCEPT !.op = "register", !.name = late.name,
                            !.n = @ + 1, !.trace = <<>>]
    /\ UNCHANGED <<cur, status, log, error>>

NextPresent ==
    \/ \E name \in DOMAIN Presenters : Add(name)
    \/ \E late \in LateEntries : Register(late)

SpecPresent == InitPresent /\ [][NextPresent]_vars


\* the last two applications, in a row, were present.text and
\* present.markdown on an artifact with a payload and a format command that
\* normalizes to plain or to markdown
C13_Case ==
    /\ Len(last.trace) >= 2
    /\ {last.trace[Len(last.trace) - 1].name,
        last.trace[Len(last.trace)].name} = {"text", "markdown"}
    /\ last.trace[Len(last.trace) - 1].before.obj # "None"
    /\ DictGet(last.trace[Len(last.trace) - 1].before.commands, "format",
               <<"markdown">>)
           \in {<<"plain">>, <<"text">>, <<"txt">>, <<"markdown">>, <<"md">>}

\* the presenter the format command prefers, and the other one
C13_Preferred ==
    IF DictGet(cur.commands, "format", <<"markdown">>)
           \in {<<"plain">>, <<"text">>, <<"txt">>}
    THEN "text" ELSE "markdown"

C13_Other == IF C13_Preferred = "text" THEN "markdown" ELSE "text"

\* the application of present.name among the last two
C13_Application(name) ==
    IF last.trace[Len(last.trace)].name = name
    THEN last.trace[Len(last.trace)]
    ELSE last.trace[Len(last.trace) - 1]

\* the preferred presenter has a handler registered for the payload's type
C13_HasTyped ==
    \E i \in 1..Len(env.presenters[C13_Preferred]) :
        /\ env.presenters[C13_Preferred][i].type.kind # "none"
        /\ TypeMatches(env.presenters[C13_Preferred][i].type, cur.obj)

\* C13: for an artifact with a payload and a format command that normalizes
\* to plain or to markdown, present.text and present.markdown applied
\* additively: if the preferred presenter has a type-specific handler for
\* the payload's type, only the preferred one adds text and the other leaves
\* the artifact unchanged; in every case at least one of the two runs.
C13_PreferredPresenterOnly ==
    C13_Case =>
        /\ C13_HasTyped =>
               /\ C13_Application(C13_Preferred).log = <<C13_Preferred>>
               /\ C13_Application(C13_Preferred).after.text =
                      C13_Application(C13_Preferred).before.text
                          \o <<C13_Preferred>>
               /\ C13_Application(C13_Other).log = <<>>
               /\ C13_Application(C13_Other).after =
                      C13_Application(C13_Other).before
        /\ \/ C13_Application(C13_Preferred).log # <<>>
           \/ C13_Application(C13_Other).log # <<>>

\* present.text then present.markdown on a PDF with format plain: only the
\* text presenter has run
C13_Witness ==
    /\ C13_Case
    /\ C13_HasTyped
    /\ cur.obj = "PDF"
    /\ C13_Preferred = "text"
    /\ last.trace[Len(last.trace)].name = "markdown"
    /\ cur.text = <<"text">>

\* the presenters tagged image
ImageTagged(name) == name \in {"images", "thumbnails"}

\* the dispatcher finds a handler of the presenter for the payload
Selectable(name, obj) ==
    \E i \in 1..Len(env.presenters[name]) :
        \/ env.presenters[name][i].type.kind = "none"
        \/ obj # "None" /\ TypeMatches(env.presenters[name][i].type, obj)

\* the artifact without an images command
WithoutImages(att) ==
    [att EXCEPT !.commands =
        [k \in DOMAIN att.commands \ {"images"} |-> att.commands[k]]]

\* the presenter applied last
Applied == last.trace[Len(last.trace)]

\* the modality gate lets the presenter applied last through: an image
\* presenter with a handler for the payload has run, a text presenter did
\* what it does without an images command
NotSuppressed ==
    IF ImageTagged(Applied.name)
    THEN Selectable(Applied.name, Applied.before.obj) =>
             Applied.log = <<Applied.name>>
    ELSE Applied.log =
             AttachmentAdd(WithoutImages(Applied.before), Applied.name, env).log

\* C14 as claimed: whenever commands.images is "false", a presenter tagged
\* image returns the artifact with images, text and metadata unchanged;
\* whenever commands.images is absent or has any other value, the modality
\* gate suppresses neither an image presenter nor a text presenter.
C14_GateOnFalse ==
    last.op = "add" =>
        IF DictGet(Applied.before.commands, "images", <<"true">>) = <<"false">>
        THEN ImageTagged(Applied.name) => Applied.after = Applied.before
        ELSE NotSuppressed

\* C14 amended: whenever commands.images is "false" in any letter case, a
\* presenter tagged image returns the artifact with images, text and
\* metadata unchanged; whenever commands.images is absent or has any other
\* value, the modality gate suppresses neither an image presenter nor a
\* text presenter.
C14_GateOnFalseAnyCase ==
    last.op = "add" =>
        IF Lower(DictGet(Applied.before.commands, "images", <<"true">>))
               = <<"false">>
        THEN ImageTagged(Applied.name) =>
                 /\ Applied.after = Applied.before
                 /\ Applied.log = <<>>
        ELSE NotSuppressed

\* present.images applied to an image with images:False did nothing
C14_Witness ==
    /\ last.op = "add"
    /\ Applied.name = "images"
    /\ Applied.before.obj = "Image"
    /\ DictGet(Applied.before.commands, "images", <<"true">>) = <<"False">>
    /\ cur = Applied.before
    /\ log = <<>>


(***************************************************************************)
(* The high-level construction:  Attachments(paths...)                     *)
(***************************************************************************)
\* the inputs given
InputPaths == {<<"a", ".pdf">>, <<"b", ".csv">>, <<"e", ".bin">>,
               <<"d", ".zip">>, DirPath}

\* a file is missing, present but not openable ("locked"), openable but not
\* what its loader expects ("corrupt"), loadable ("ok"), or loadable with a
\* content on which a presenter raises ("unpresentable")
FileStates == {"missing", "locked", "corrupt", "ok", "unpresentable"}

\* a registered processor: a primary one has no name
Processor(id, name, suffixes) ==
    [id |-> id, name |-> name, suffixes |-> suffixes]

\* the processors registered by pipelines/pdf_processor.py, in order
Processors0 ==
    <<Processor("pdf_to_llm", "", {".pdf"}),
      Processor("programmer_pdf", "programmer_pdf", {".pdf"})>>

\* processors registered later
LateProcessors ==
    {Processor("pdf_second", "", {".pdf"}),
     Processor("csv_named", "csv_named", {".csv"})}

\* find_primary_processor: the first primary processor, in registration
\* order, whose predicate matches the artifact; 0 when there is none
find_primary_processor(att, processors) ==
    IF \E i \in 1..Len(processors) :
           processors[i].name = "" /\ endswith(att.path, processors[i].suffixes)
    THEN Min({i \in 1..Len(processors) :
                 processors[i].name = ""
                 /\ endswith(att.path, processors[i].suffixes)})
    ELSE 0

\* a processor function such as pdf_to_llm,
\*   att | load.pdf_to_pdfplumber | modify.pages | present... | refine...
\* the loader raises on a file it cannot load and leaves att as it was; a
\* presenter that raises leaves att loaded
ProcessorFn(p, att, e) ==
    IF att.path \notin e.readable THEN Raise(p.id, att, <<p.id>>)
    ELSE IF att.path \in e.unpresentable
    THEN Raise(p.id, [att EXCEPT !.obj = "PDF",
                                 !.pipeline = @ \o <<"pdf_to_pdfplumber">>],
               <<p.id>>)
    ELSE Same([att EXCEPT !.obj = "PDF", !.text = @ \o <<p.id>>,
                          !.pipeline = @ \o <<"pdf_to_pdfplumber">>],
              <<p.id>>)

\* the loader chain of _universal_pipeline, for the loaders modelled
LoaderChain ==
    <<"directory_to_structure", "pdf_to_pdfplumber", "csv_to_pandas",
      "text_to_string", "zip_to_images">>

\* lines 144-153: att | load.x | load.y | ... from loader i on
RECURSIVE ChainLoad(_, _, _, _)
RECURSIVE ChainOutcome(_, _, _, _)
ChainLoad(v, i, lg, e) ==
    IF i > Len(LoaderChain) THEN Ok(v, v, TRUE, lg)
    ELSE ChainOutcome(PipeResult(v, LoaderHandle(LoaderChain[i]), e), i, lg, e)

ChainOutcome(r, i, lg, e) ==
    IF r.tag = "exc" THEN Raise(r.exc, r.arg, lg \o r.log)
    ELSE ChainLoad(r.val, i + 1, lg \o r.log, e)

\* lines 154-163: the last resort after a loader raised
BasicRead(att, e) ==
    IF att.path \notin e.exists THEN att
    ELSE IF att.path \in e.openable
    THEN [att EXCEPT !.text = FileText, !.obj = "str"]
    ELSE [att EXCEPT !.text = <<"Could not read file: ">> \o att.path]

\* lines 143-163: r is what the loader chain did to att
LoadOutcome(att, r, e) ==
    IF r.tag = "exc"
    THEN Ok(BasicRead(att, e), att, TRUE, r.log \o <<"basic_read">>)
    ELSE r

\* lines 143-163
UniversalLoad(att, e) == LoadOutcome(att, ChainLoad(att, 1, <<>>, e), e)

\* one artifact put through the presenters and refine.add_headers
Presented(att) ==
    [att EXCEPT !.text = @ \o <<"presented">>,
                !.pipeline = @ \o <<"present">>]

\* present.files: the directory map
PresentedFiles(att) ==
    [att EXCEPT !.text = @ \o <<"directory_map">>,
                !.metadata = DictSet(@, "directory_map", <<"directory_map">>),
                !.pipeline = @ \o <<"files">>]

\* lines 166-200: r is the loading stage; the presenters of a file listed
\* in e.unpresentable raise
PresentStage(r, e) ==
    IF isCollection(r.val)
    THEN Ok(AttachmentCollection(
                [i \in 1..Len(r.val.attachments) |->
                    Presented(r.val.attachments[i])]),
            r.arg, FALSE, r.log \o <<"present">>)
    ELSE IF r.val.obj = "dict"
    THEN Same(PresentedFiles(r.val), r.log \o <<"files">>)
    ELSE IF r.val.path \in e.unpresentable
    THEN Raise("present", r.val, r.log \o <<"present">>)
    ELSE Same(Presented(r.val), r.log \o <<"present">>)

\* Attachments._universal_pipeline
universal_pipeline(att, e) ==
    After(<<"universal">>, PresentStage(UniversalLoad(att, e), e))

\* the processor's failure left to propagate
ProcessorOutcomeNoFallback(r, e) == r

\* lines 125-133: r is what the selected processor did
ProcessorOutcome(r, e) ==
    IF r.tag = "ok" THEN r ELSE After(r.log, universal_pipeline(r.arg, e))

\* Attachments._auto_process
auto_process(att, e) ==
    IF find_primary_processor(att, e.processors) # 0
    THEN ProcessorOutcome(
             ProcessorFn(e.processors[find_primary_processor(att, e.processors)],
                         att, e), e)
    ELSE universal_pipeline(att, e)

\* lines 111-116, 92-97: the artifact standing for a path that failed
ErrorArtifact(path, exc) ==
    [NewAttachment(path) EXCEPT
        !.text = <<"Could not process ">> \o path \o <<": ", exc>>,
        !.metadata = [k \in {"error", "path"} |->
                         IF k = "error" THEN <<exc>> ELSE path]]

\* hasattr(result, '_file_paths'): set by directory_to_structure
hasFilePaths(v) == isAttachment(v) /\ v.obj = "dict"

\* lines 62-66: the directory map as the first artifact
Summary(path, result) ==
    [NewAttachment(path) EXCEPT
        !.text = DictGet(result.metadata, "directory_map",
                         <<"Directory: ">> \o path),
        !.metadata = result.metadata]

\* lines 70-97 for one file of a directory: r is what _auto_process did
FileAppended(file_path, r) ==
    IF r.tag = "exc" THEN <<ErrorArtifact(file_path, r.exc)>>
    ELSE IF isCollection(r.val) THEN r.val.attachments
    ELSE IF isAttachment(r.val)
    THEN <<[r.val EXCEPT
              !.metadata = DictSet(DictSet(@, "from_directory", <<"True">>),
                                   "relative_path", file_path)]>>
    ELSE <<>>

\* lines 69-97: the files of the directory from file i on
RECURSIVE Expanded(_, _, _)
Expanded(file_paths, i, e) ==
    IF i > Len(file_paths) THEN <<>>
    ELSE FileAppended(file_paths[i],
                      auto_process(NewAttachment(file_paths[i]), e))
         \o Expanded(file_paths, i + 1, e)

\* a failed input leaving nothing behind
AppendedDropFailed(path, r, e) ==
    IF r.tag = "exc" THEN <<>>
    ELSE IF hasFilePaths(r.val)
    THEN <<Summary(path, r.val)>> \o Expanded(DirFiles, 1, e)
    ELSE IF isCollection(r.val) THEN r.val.attachments
    ELSE IF isAttachment(r.val) THEN <<r.val>>
    ELSE <<>>

\* lines 50-116 for one path: r is what _auto_process did; the artifacts
\* appended to self.attachments
Appended(path, r, e) ==
    IF r.tag = "exc" THEN <<ErrorArtifact(path, r.exc)>>
    ELSE IF hasFilePaths(r.val)
    THEN <<Summary(path, r.val)>> \o Expanded(DirFiles, 1, e)
    ELSE IF isCollection(r.val) THEN r.val.attachments
    ELSE IF isAttachment(r.val) THEN <<r.val>>
    ELSE <<>>

\* one call of _auto_process as the construction made it
Run(path, e) == [path |-> path, r |-> auto_process(NewAttachment(path), e)]

\* the calls of _auto_process made for one input
Runs(path, r, e) ==
    <<[path |-> path, r |-> r]>>
    \o (IF r.tag = "ok" /\ hasFilePaths(r.val)
        THEN [i \in 1..Len(DirFiles) |-> Run(DirFiles[i], e)]
        ELSE <<>>)

\* lines 50-116 for one path: r is what _auto_process did
Group(path, r, e) ==
    [path |-> path, attachments |-> Appended(path, r, e),
     runs |-> Runs(path, r, e)]

\* Attachments._process_files: per input, the artifacts appended and the
\* calls made
process_files(paths, e) ==
    [i \in 1..Len(paths) |->
        Group(paths[i], auto_process(NewAttachment(paths[i]), e), e)]

\* self.attachments: the groups one after the other
RECURSIVE Flatten(_)
Flatten(groups) ==
    IF groups = <<>> THEN <<>>
    ELSE Flatten(SubSeq(groups, 1, Len(groups) - 1))
         \o groups[Len(groups)].attachments

\* the functions run, over all the calls
RECURSIVE RunLogs(_)
RunLogs(groups) ==
    IF groups = <<>> THEN <<>>
    ELSE RunLogs(SubSeq(groups, 1, Len(groups) - 1))
         \o [i \in 1..Len(groups[Len(groups)].runs) |->
                groups[Len(groups)].runs[i].r.log]

\* the files an input sequence touches
Touched(paths) ==
    {paths[i] : i \in 1..Len(paths)}
    \cup (IF \E i \in 1..Len(paths) : paths[i] = DirPath
          THEN {DirFiles[i] : i \in 1..Len(DirFiles)} ELSE {})

\* the file systems in which an input sequence is processed: DirPath is a
\* directory, what is not touched is missing
FileSystems(paths) ==
    {[p \in InputPaths |->
         IF p = DirPath THEN "dir"
         ELSE IF p \in Touched(paths) THEN f[p] ELSE "missing"] :
     f \in [Touched(paths) \ {DirPath} -> FileStates]}

InitAttachments ==
    /\ cur = NoneV
    /\ status = "run"
    /\ last = [op |-> "init", paths |-> <<>>, groups |-> <<>>]
    /\ log = <<>>
    /\ error = ""
    /\ env = [readable |-> {}, pypdf |-> TRUE, beh |-> NoBeh,
              handlers |-> NoHandlers, exists |-> {}, openable |-> {},
              unpresentable |-> {}, processors |-> Processors0]

\* @processor(match=..., name=...) applied to a function after import
RegisterProcessor(p) ==
    /\ status = "run"
    /\ \A i \in 1..Len(env.processors) : env.processors[i].id # p.id
    /\ env' = [env EXCEPT !.processors = Append(@, p)]
    /\ last' = [last EXCEPT !.op = "register"]
    /\ UNCHANGED <<cur, status, log, error>>

\* Attachments(*paths) in the file system fs
Build(paths, fs) ==
    /\ status = "run"
    /\ env' = [env EXCEPT
                 !.exists = {p \in InputPaths : fs[p] # "missing"},
                 !.openable = {p \in InputPaths :
                                  fs[p] \in {"corrupt", "ok", "unpresentable",
                                             "dir"}},
                 !.readable = {p \in InputPaths :
                                  fs[p] \in {"ok", "unpresentable", "dir"}},
                 !.unpresentable = {p \in InputPaths :
                                       fs[p] = "unpresentable"}]
    /\ last' = [op |-> "build", paths |-> paths,
                groups |-> process_files(paths, env')]
    /\ cur' = [kind |-> "attachments",
               attachments |-> Flatten(last'.groups)]
    /\ status' = "built"
    /\ log' = RunLogs(last'.groups)
    /\ error' = ""

\* sequences of at most n inputs
InputSeqs(n) == UNION {[1..k -> InputPaths] : k \in 0..n}

NextAttachments ==
    \/ \E p \in LateProcessors : RegisterProcessor(p)
    \/ \E paths \in InputSeqs(MaxInputs) :
           \E fs \in FileSystems(paths) : Build(paths, fs)

SpecAttachments == InitAttachments /\ [][NextAttachments]_vars

\* every call of _auto_process made by the construction
AutoRuns ==
    UNION {{last.groups[i].runs[j] : j \in 1..Len(last.groups[i].runs)} :
              i \in 1..Len(last.groups)}

\* the positions in the registry of the primary processors whose predicate
\* matches a path
PrimaryMatches(path) ==
    {i \in 1..Len(env.processors) :
        env.processors[i].name = ""
        /\ endswith(path, env.processors[i].suffixes)}

\* the positions of the processors that ran in a call, one per time it ran
ProcessorsRun(run) ==
    {<<k, i>> \in (1..Len(run.r.log)) \X (1..Len(env.processors)) :
        run.r.log[k] = env.processors[i].id}

UniversalRan(run) == \E k \in 1..Len(run.r.log) : run.r.log[k] = "universal"

\* a processor's pipeline raises on a file that cannot be loaded or presented
SelectedRaises(run) ==
    run.path \notin env.readable \/ run.path \in env.unpresentable

\* C15: for each input of the construction at most one primary processor
\* runs, the first registered primary processor whose predicate matches; a
\* named processor is never selected; the universal pipeline runs exactly
\* when no primary processor matches or the selected one raises
C15_ProcessorSelection ==
    last.op = "build" =>
        \A run \in AutoRuns :
            /\ Cardinality(ProcessorsRun(run)) <= 1
            /\ \A ki \in ProcessorsRun(run) :
                   /\ env.processors[ki[2]].name = ""
                   /\ ki[2] \in PrimaryMatches(run.path)
                   /\ \A j \in PrimaryMatches(run.path) : ki[2] <= j
            /\ PrimaryMatches(run.path) # {} => ProcessorsRun(run) # {}
            /\ UniversalRan(run) <=>
                   (PrimaryMatches(run.path) = {} \/ SelectedRaises(run))

\* two primary processors and a named one match inputs given, and the
\* selected processor of one input raised
C15_Witness ==
    /\ last.op = "build"
    /\ \E run \in AutoRuns :
           Cardinality(PrimaryMatches(run.path)) = 2 /\ UniversalRan(run)
    /\ \E run \in AutoRuns :
           /\ PrimaryMatches(run.path) = {}
           /\ \E i \in 1..Len(env.processors) :
                  endswith(run.path, env.processors[i].suffixes)

\* the artifact a call leaves: the one returned, or after an exception the
\* one that was being processed
Final(run) == IF run.r.tag = "ok" THEN run.r.val ELSE run.r.arg

StartsWith(s, prefix) ==
    Len(s) >= Len(prefix) /\ SubSeq(s, 1, Len(prefix)) = prefix

\* the loader chain of the universal pipeline ended without a payload: a
\* loader raised, or none matched
EndsWithoutPayload(run) ==
    /\ UniversalRan(run)
    /\ \/ \E k \in 1..Len(run.r.log) : run.r.log[k] = "basic_read"
       \/ isAttachment(Final(run)) /\ Final(run).obj = "None"

\* C16: whenever the loader chain of the universal pipeline ends without a
\* payload, the text of the artifact is what could be read at the path, and
\* a readable error message when nothing can be read there
C16_TextReadOrError ==
    last.op = "build" =>
        \A run \in AutoRuns :
            EndsWithoutPayload(run) =>
                IF run.path \in env.openable
                THEN StartsWith(Final(run).text, FileText)
                ELSE StartsWith(Final(run).text, <<"Could not read file: ">>)

\* the inputs whose processing failed
Failed(i) == last.groups[i].runs[1].r.tag = "exc"

RemoveAt(s, i) == SubSeq(s, 1, i - 1) \o SubSeq(s, i + 1, Len(s))

\* the artifact a belongs to the input path
BelongsTo(a, path) ==
    \/ a.path = path
    \/ DictGet(a.metadata, "from_zip", <<>>) = path
    \/ /\ path = DirPath
       /\ \E i \in 1..Len(DirFiles) : a.path = DirFiles[i]

markdown_pdf(att, failing) ==
    IF failing
    THEN Same([att EXCEPT !.text = @ \o <<"# PDF Document: ",
                                         "*Error extracting PDF text*">>],
              <<"markdown">>)
    ELSE Same([att EXCEPT !.text = @ \o <<"# PDF Document: ", "## Page 1">>,
                          !.metadata = DictSet(@, "total_pages", <<"1">>)],
              <<"markdown">>)

\* present.py 241-253: images(att, img)
images_image(att, failing) ==
    IF failing THEN Same(att, <<"images">>)
    ELSE Same([att EXCEPT !.images = @ \o <<"png">>], <<"images">>)

\* present.py 397-502: images(att, pdf_reader)
images_pdf(att, failing) ==
    IF failing
    THEN Same([att EXCEPT !.metadata = DictSet(@, "pdf_images_error",
                                               <<"Error rendering PDF">>)],
              <<"images">>)
    ELSE Same([att EXCEPT !.images = @ \o <<"data:image/png;base64,page">>,
                          !.metadata = DictSet(@, "pdf_pages_rendered",
                                               <<"1">>)],
              <<"images">>)

\* present.py 226-230: text(att, soup)
text_soup(att, failing) ==
    IF failing THEN Raise("get_text", att, <<"text">>)
    ELSE Same([att EXCEPT !.text = @ \o <<"soup text">>], <<"text">>)

\* present.py 832-852: the fallback handlers, which call no collaborator
fallback_presenter(name, att) ==
    IF name = "images" THEN Same(att, <<name>>)
    ELSE Same([att EXCEPT !.text = @ \o <<name>>], <<name>>)

\* the typed handlers above are the ones that call a collaborator
CallsCollaborator(name, obj) ==
    \/ name = "markdown" /\ obj = "PDF"
    \/ name = "images" /\ obj \in {"PDF", "Image"}
    \/ name = "text" /\ obj = "BeautifulSoup"

\* att | present.<name>: the handler dispatched on the payload's type
PresenterWithCollaborator(name, att, failing) ==
    CASE name = "markdown" /\ att.obj = "PDF" -> markdown_pdf(att, failing)
      [] name = "images" /\ att.obj = "Image" -> images_image(att, failing)
      [] name = "images" /\ att.obj = "PDF"   -> images_pdf(att, failing)
      [] name = "text" /\ att.obj = "BeautifulSoup" -> text_soup(att, failing)
      [] OTHER -> fallback_presenter(name, att)

\* the artifacts of a collection that tile_images tiles
HasImagePayload(collection) ==
    \E i \in 1..Len(collection.attachments) :
        collection.attachments[i].obj = "Image"

\* refine.py 42-128: tile_images with an image whose resize raises
TileWithCollaborator(collection, failing) ==
    IF failing /\ isCollection(collection) /\ HasImagePayload(collection)
    THEN Raise("ValueError", collection, <<"tile_images">>)
    ELSE tile_images(collection)

ErrorPayloads == {"None", "PDF", "Image", "BeautifulSoup"}
ErrorPresenters == {"markdown", "text", "images"}

InitErrors ==
    /\ cur \in {[Attachment(<<"a", ".x">>, EmptyMap) EXCEPT !.obj = o] :
                   o \in ErrorPayloads}
               \cup {AttachmentCollection(
                        [i \in 1..2 |->
                            [Attachment(ZipMembers[i], EmptyMap) EXCEPT
                                !.obj = "Image"]])}
    /\ status = "run"
    /\ last = [op |-> "init", name |-> "", n |-> 0, failed |-> FALSE,
               before |-> NoneV]
    /\ log = <<>>
    /\ error = ""
    /\ env = [readable |-> {}, pypdf |-> TRUE, beh |-> NoBeh,
              handlers |-> NoHandlers]

\* cur = cur | present.<name>
Present(name, failing) ==
    /\ status = "run"
    /\ Steps < MaxChain
    /\ isAttachment(cur)
    /\ Returned(PresenterWithCollaborator(name, cur, failing))
    /\ last' = [op |-> "present", name |-> name, n |-> Steps + 1,
                failed |-> failing /\ CallsCollaborator(name, cur.obj),
                before |-> cur]
    /\ UNCHANGED env

\* cur = cur | refine.tile_images
Refine(failing) ==
    /\ status = "run"
    /\ Steps < MaxChain
    /\ isAttachment(cur) \/ isCollection(cur)
    /\ Returned(TileWithCollaborator(cur, failing))
    /\ last' = [op |-> "refine", name |-> "tile_images", n |-> Steps + 1,
                failed |-> failing /\ isCollection(cur)
                           /\ HasImagePayload(cur),
                before |-> cur]
    /\ UNCHANGED env

NextErrors ==
    \/ \E name \in ErrorPresenters, failing \in BOOLEAN :
           Present(name, failing)
    \/ \E failing \in BOOLEAN : Refine(failing)

SpecErrors == InitErrors /\ [][NextErrors]_vars

\* the metadata key the error of a verb is to be recorded under
ErrorKey(name) ==
    CASE name = "markdown"    -> "markdown_error"
      [] name = "text"        -> "text_error"
      [] name = "images"      -> "images_error"
      [] name = "tile_images" -> "tile_images_error"

\* C18: an error raised by a collaborator inside a presenter or a refiner
\* does not propagate: the verb returns the artifact with an entry under
\* <name>_error in its metadata and with its text and images as before,
\* and the following verbs still run
C18_ErrorContained ==
    last.op \in {"present", "refine"} /\ last.failed =>
        /\ status = "run"
        /\ isAttachment(cur)
        /\ ErrorKey(last.name) \in DOMAIN cur.metadata
        /\ isAttachment(last.before) =>
               /\ cur.text = last.before.text
               /\ cur.images = last.before.images

(***************************************************************************)
(* The Claude adapter.  A string of images is a sequence of pieces, each   *)
(* with its number of characters.                                          *)
(***************************************************************************)
DataUrlPrefix == "data:image/png;base64"

\* len(piece)
Width(piece) ==
    CASE piece = DataUrlPrefix  -> 21
      [] piece = ","            -> 1
      [] piece = "aGVsbG8="     -> 8
      [] piece = "AAAABBBBCCCC" -> 12
      [] piece = "_placeholder" -> 12
      [] piece = "img"          -> 3

\* len(img)
RECURSIVE StrLen(_)
StrLen(img) ==
    IF img = <<>> THEN 0 ELSE Width(Head(img)) + StrLen(Tail(img))

\* img.startswith('data:image/')
IsDataUrl(img) == img # <<>> /\ img[1] = DataUrlPrefix

\* ',' in img
HasComma(img) == \E i \in 1..Len(img) : img[i] = ","

\* img.split(',', 1)[1]
AfterComma(img) ==
    SubSeq(img, Min({i \in 1..Len(img) : img[i] = ","}) + 1, Len(img))

\* img.endswith('_placeholder')
IsPlaceholder(img) == img # <<>> /\ img[Len(img)] = "_placeholder"

ImagePart(data) ==
    [type |-> "image",
     source |-> [type |-> "base64", media_type |-> "image/png",
                 data |-> data]]

TextPart(text) == [type |-> "text", text |-> text]

\* adapt.py 89-111: the image parts for the images from entry i on
RECURSIVE ClaudeImages(_, _)
ClaudeImages(images, i) ==
    IF i > Len(images) THEN <<>>
    ELSE (IF images[i] # <<>> /\ StrLen(images[i]) > 10
          THEN IF IsDataUrl(images[i])
               THEN IF HasComma(images[i])
                    THEN <<ImagePart(AfterComma(images[i]))>>
                    ELSE <<>>
               ELSE IF IsPlaceholder(images[i]) THEN <<>>
               ELSE <<ImagePart(images[i])>>
          ELSE <<>>)
         \o ClaudeImages(images, i + 1)

\* adapt.py 77-87: the text part
ClaudeText(effective_prompt, text) ==
    IF effective_prompt # <<>> /\ text # <<>>
    THEN <<TextPart(effective_prompt \o <<"\n\n">> \o text)>>
    ELSE IF effective_prompt # <<>> THEN <<TextPart(effective_prompt)>>
    ELSE IF text # <<>> THEN <<TextPart(text)>>
    ELSE <<>>

\* adapt.claude, for the artifact att = _handle_collection(input_obj)
claude(att, prompt) ==
    <<[role |-> "user",
       content |->
           ClaudeText(IF prompt # <<>> THEN prompt
                      ELSE DictGet(att.commands, "prompt", <<>>),
                      att.text)
           \o ClaudeImages(att.images, 1)]>>

\* the strings found in images
ImageStrings ==
    {<<>>, <<"aGVsbG8=">>, <<"AAAABBBBCCCC">>,
     <<DataUrlPrefix, ",", "AAAABBBBCCCC">>, <<DataUrlPrefix>>,
     <<"img", "_placeholder">>,
     <<DataUrlPrefix, ",", "img", "_placeholder">>}

InitAdapt ==
    /\ cur \in {[Attachment(<<"a", ".x">>, c) EXCEPT !.text = t] :
                   c \in {EmptyMap, DictSet(EmptyMap, "prompt", <<"dsl">>)},
                   t \in {<<>>, <<"hello">>}}
    /\ status = "run"
    /\ last = [op |-> "init", prompt |-> <<>>, before |-> NoneV]
    /\ log = <<>>
    /\ error = ""
    /\ env = [readable |-> {}, pypdf |-> TRUE, beh |-> NoBeh,
              handlers |-> NoHandlers]

\* att.images.append(img), as a presenter does
AppendImage(img) ==
    /\ status = "run"
    /\ Len(cur.images) < MaxSet
    /\ cur' = [cur EXCEPT !.images = Append(@, img)]
    /\ last' = [last EXCEPT !.op = "append"]
    /\ UNCHANGED <<status, log, error, env>>

\* cur = adapt.claude(cur, prompt)
AdaptClaude(prompt) ==
    /\ status = "run"
    /\ cur' = [kind |-> "other", by |-> "claude",
               val |-> claude(handle_collection(cur), prompt)]
    /\ status' = "adapted"
    /\ last' = [op |-> "adapt", prompt |-> prompt, before |-> cur]
    /\ log' = log \o <<"claude">>
    /\ UNCHANGED <<error, env>>

NextAdapt ==
    \/ \E img \in ImageStrings : AppendImage(img)
    \/ \E prompt \in {<<>>, <<"describe">>} : AdaptClaude(prompt)

SpecAdapt == InitAdapt /\ [][NextAdapt]_vars

\* the prompt in force: the parameter, else commands.prompt
EffectivePrompt(att, prompt) ==
    IF prompt # <<>> THEN prompt ELSE DictGet(att.commands, "prompt", <<>>)

\* at most one text part: prompt and text joined by a blank line when both
\* are present, the one present otherwise
ExpectedText(p, text) ==
    IF p # <<>> /\ text # <<>> THEN <<TextPart(p \o <<"\n\n">> \o text)>>
    ELSE IF p \o text # <<>> THEN <<TextPart(p \o text)>>
    ELSE <<>>

\* an entry of images with its data-URL prefix removed
WithoutPrefix(img) ==
    IF IsDataUrl(img) /\ HasComma(img) THEN AfterComma(img) ELSE img

\* one image part per entry that does not end in _placeholder, in order
RECURSIVE ExpectedImages(_)
ExpectedImages(images) ==
    IF images = <<>> THEN <<>>
    ELSE (IF IsPlaceholder(Head(images)) THEN <<>>
          ELSE <<ImagePart(WithoutPrefix(Head(images)))>>)
         \o ExpectedImages(Tail(images))

\* C19: the Claude adapter returns exactly one user message whose content
\* is at most one text part (prompt and text joined by a blank line, the
\* prompt parameter before commands.prompt), then one image part per entry
\* of images that does not end in _placeholder, in order, with media type
\* image/png and the data-URL prefix removed
C19_ClaudeMessage ==
    last.op = "adapt" =>
        cur.val = <<[role |-> "user",
                     content |->
                         ExpectedText(EffectivePrompt(last.before, last.prompt),
                                      last.before.text)
                         \o ExpectedImages(last.before.images)]>>

(***************************************************************************)
(* Adapters called as methods:  obj.<name>(args)                           *)
(***************************************************************************)
\* the headers of the presenters that __str__ recognises at the start of a
\* text
HeaderPieces == {"# PDF Document: ", "# Image: ", "## Data from "}

\* simple.py 209-245: the section of artifact i in str(self)
Section(self, i) ==
    IF Len(self.attachments) > 1
       /\ self.attachments[i].text[1] \notin HeaderPieces
    THEN <<"## ">> \o self.attachments[i].path \o <<"\n\n">>
         \o self.attachments[i].text
    ELSE self.attachments[i].text

\* simple.py 247: "\n\n---\n\n".join(text_sections), from artifact i on
RECURSIVE Sections(_, _)
Sections(self, i) ==
    IF i > Len(self.attachments) THEN <<>>
    ELSE IF self.attachments[i].text = <<>> THEN Sections(self, i + 1)
    ELSE IF Sections(self, i + 1) = <<>> THEN Section(self, i)
    ELSE Section(self, i) \o <<"\n\n---\n\n">> \o Sections(self, i + 1)

\* Attachments.images: the images that are no placeholders
RECURSIVE RealImages(_)
RealImages(attachments) ==
    IF attachments = <<>> THEN <<>>
    ELSE SelectSeq(Head(attachments).images,
                   LAMBDA img : img # <<>> /\ ~IsPlaceholder(img))
         \o RealImages(Tail(attachments))

\* Attachments.__str__
StrOfAttachments(self) ==
    IF Len(self.attachments) > 1
    THEN <<"Processing Summary: ", Len(self.attachments),
           Len(RealImages(self.attachments)), "\n\n">> \o Sections(self, 1)
    ELSE Sections(self, 1)

\* Attachments.metadata
MetadataOfAttachments(self) ==
    [k \in {"file_count", "image_count", "files"} |->
        CASE k = "file_count"  -> Len(self.attachments)
          [] k = "image_count" -> Len(RealImages(self.attachments))
          [] k = "files"       ->
                 [i \in 1..Len(self.attachments) |->
                     [path |-> self.attachments[i].path,
                      metadata |-> self.attachments[i].metadata]]]

\* Attachments._to_single_attachment
to_single_attachment(self) ==
    IF self.attachments = <<>> THEN Attachment(<<>>, EmptyMap)
    ELSE [Attachment(<<>>, EmptyMap) EXCEPT
             !.text = StrOfAttachments(self),
             !.images = RealImages(self.attachments),
             !.metadata = MetadataOfAttachments(self)]

\* Attachment.__getattr__(name)(*args)
AttachmentMethod(self, name, args, adapters) ==
    IF name \in adapters THEN AdapterFn(name, self, args)
    ELSE Raise("AttributeError", self, <<>>)

\* AttachmentCollection defines no __getattr__: the normal attribute
\* lookup fails
CollectionMethod(self, name, args, adapters) ==
    Raise("AttributeError", self, <<>>)

\* Attachments.__getattr__(name)(*args)
AttachmentsMethod(self, name, args, adapters) ==
    IF name \in adapters
    THEN [AdapterFn(name, to_single_attachment(self), args) EXCEPT
             !.arg = self]
    ELSE Raise("AttributeError", self, <<>>)

\* the objects adapters are called on
MethodMembers ==
    {[Attachment(<<"a", ".pdf">>, EmptyMap) EXCEPT
         !.text = <<"# PDF Document: ", "t1">>,
         !.images = << <<"AAAABBBBCCCC">> >>],
     [Attachment(<<"b", ".csv">>, EmptyMap) EXCEPT !.text = <<"t2">>],
     [Attachment(<<"i", ".png">>, EmptyMap) EXCEPT
         !.images = << <<"img", "_placeholder">> >>]}

MethodSeqs == UNION {[1..k -> MethodMembers] : k \in 0..MaxSet}

InitMethods ==
    /\ cur \in MethodMembers
               \cup {AttachmentCollection(s) : s \in MethodSeqs}
               \cup {[kind |-> "attachments", attachments |-> s] :
                        s \in MethodSeqs}
    /\ status = "run"
    /\ last = [op |-> "init", name |-> "", before |-> NoneV]
    /\ log = <<>>
    /\ error = ""
    /\ env = [readable |-> {}, pypdf |-> TRUE, beh |-> NoBeh,
              handlers |-> NoHandlers, adapters |-> AdapterNames]

\* @adapter applied to a function named name, after cur was created
RegisterAdapter(name) ==
    /\ status = "run"
    /\ name \notin env.adapters
    /\ env' = [env EXCEPT !.adapters = @ \cup {name}]
    /\ last' = [last EXCEPT !.op = "register"]
    /\ UNCHANGED <<cur, status, log, error>>

\* cur = cur.<name>(prompt) on an artifact
CallOnAttachment(name, args) ==
    /\ status = "run"
    /\ isAttachment(cur)
    /\ Returned(AttachmentMethod(cur, name, args, env.adapters))
    /\ last' = [op |-> "call", name |-> name, before |-> cur]
    /\ UNCHANGED env

\* cur = cur.<name>(prompt) on a collection
CallOnCollection(name, args) ==
    /\ status = "run"
    /\ isCollection(cur)
    /\ Returned(CollectionMethod(cur, name, args, env.adapters))
    /\ last' = [op |-> "call", name |-> name, before |-> cur]
    /\ UNCHANGED env

\* cur = cur.<name>(prompt) on an Attachments object
CallOnAttachments(name, args) ==
    /\ status = "run"
    /\ cur.kind = "attachments"
    /\ Returned(AttachmentsMethod(cur, name, args, env.adapters))
    /\ last' = [op |-> "call", name |-> name, before |-> cur]
    /\ UNCHANGED env

MethodArgs == {<<>>, << <<"describe">> >>}

NextMethods ==
    \/ \E name \in CustomAdapters : RegisterAdapter(name)
    \/ \E name \in AdapterNames \cup CustomAdapters, args \in MethodArgs :
           \/ CallOnAttachment(name, args)
           \/ CallOnCollection(name, args)
           \/ CallOnAttachments(name, args)

SpecMethods == InitMethods /\ [][NextMethods]_vars

\* the content of an object as one artifact
ContentOf(obj) ==
    CASE isAttachment(obj) -> obj
      [] isCollection(obj) -> to_attachment(obj)
      [] OTHER             -> to_single_attachment(obj)

\* C20: a registered adapter, also one registered after the object was
\* created, can be called as a method on an artifact, on a collection and
\* on an Attachments object, and the call returns the adapter's result for
\* the object's content
C20_AdapterIsMethod ==
    last.op = "call" /\ last.name \in env.adapters =>
        /\ status = "run"
        /\ cur.kind = "other"
        /\ cur.by = last.name
        /\ cur.of = ContentOf(last.before)

(***************************************************************************)
(* The refiners of refine.py on one artifact.  A text is the sequence of   *)
(* its characters; an entry of images is a sequence of pieces.             *)
(***************************************************************************)
\* no limit argument: truncate(att)
NoLimit == [kind |-> "none"]
\* a limit argument: truncate(n)
Limit(n) == [kind |-> "int", val |-> n]

\* text[:limit], also for a negative limit
Prefix(text, limit) ==
    IF limit >= 0 THEN SubSeq(text, 1, IF limit < Len(text) THEN limit
                                       ELSE Len(text))
    ELSE SubSeq(text, 1, IF Len(text) + limit > 0 THEN Len(text) + limit
                         ELSE 0)

\* refine.py 9-10: the limit in force; commands.truncate holds digits
LimitOf(att, limit) ==
    IF limit = NoLimit THEN DictGet(att.commands, "truncate", <<1000>>)[1]
    ELSE limit.val

\* refine.truncate
truncate(att, limit) ==
    IF att.text # <<>> /\ Len(att.text) > LimitOf(att, limit)
    THEN Same([att EXCEPT
                 !.text = Prefix(att.text, LimitOf(att, limit))
                          \o <<".", ".", ".">>,
                 !.metadata =
                     DictSet(@, "processing",
                             Append(DictGet(@, "processing", <<>>),
                                    [operation |-> "truncate"]))],
              <<"truncate">>)
    ELSE Same(att, <<"truncate">>)

\* refine.add_headers
add_headers(att) ==
    IF att.text # <<>> /\ att.text[1] # "#"
    THEN Same([att EXCEPT !.text = <<"#", " ">> \o att.path
                                   \o <<"\n", "\n">> \o @],
              <<"add_headers">>)
    ELSE Same(att, <<"add_headers">>)

\* text.replace('\t', ' | ')
RECURSIVE ReplaceTabs(_)
ReplaceTabs(text) ==
    IF text = <<>> THEN <<>>
    ELSE (IF Head(text) = "\t" THEN <<" ", "|", " ">> ELSE <<Head(text)>>)
         \o ReplaceTabs(Tail(text))

\* refine.format_tables
format_tables(att) ==
    IF att.text # <<>>
    THEN Same([att EXCEPT !.text = ReplaceTabs(@)], <<"format_tables">>)
    ELSE Same(att, <<"format_tables">>)

\* the resize specifications that refine.py 164-177 can parse
ValidResize == {<<"50%">>, <<"800x600">>, <<"800">>}

\* an entry of images that base64-decodes to an image
Decodable(img) == img # <<>> /\ ~IsPlaceholder(img)

\* refine.py 148-216: the resized images; an entry that fails is skipped
Resized(images, resize_spec) ==
    IF resize_spec \in ValidResize
    THEN SelectSeq(images, LAMBDA img : Decodable(img))
    ELSE <<>>

\* refine.resize_images
resize_images(att) ==
    Same([att EXCEPT
            !.images = Resized(@, DictGet(att.commands, "resize_images",
                                          <<"800x600">>)),
            !.metadata =
                DictSet(@, "processing",
                        Append(DictGet(@, "processing", <<>>),
                               [operation |-> "resize_images"]))],
         <<"resize_images">>)

\* modify.pages without a loaded payload: the fallback handler
pages_fallback(att) == Same(att, <<"pages">>)

RefineTexts ==
    {<<>>, <<"a">>, <<"a", "\t", "a">>, <<"#", "a", "a", "a">>,
     <<"a", "a", "a", "a", "a", "a">>}
RefineImages ==
    {<<>>, << <<"AAAABBBBCCCC">> >>,
     << <<"AAAABBBBCCCC">>, <<"img", "_placeholder">> >>}
RefineCommands ==
    {EmptyMap, DictSet(EmptyMap, "truncate", <<2>>),
     DictSet(EmptyMap, "resize_images", <<"abc">>)}
RefineLimits == {NoLimit, Limit(0), Limit(2), Limit(5)}

InitRefine ==
    /\ cur \in {[Attachment(<<"p">>, c) EXCEPT !.text = t, !.images = i] :
                   c \in RefineCommands, t \in RefineTexts,
                   i \in RefineImages}
    /\ status = "run"
    /\ last = [op |-> "init", name |-> "", n |-> 0, before |-> NoneV,
               limit |-> NoLimit]
    /\ log = <<>>
    /\ error = ""
    /\ env = [readable |-> {}, pypdf |-> TRUE, beh |-> NoBeh,
              handlers |-> NoHandlers]

\* cur = cur | refine.truncate  or  cur | refine.truncate(limit)
Truncate(limit) ==
    /\ status = "run"
    /\ Steps < MaxRefine
    /\ Returned(truncate(cur, limit))
    /\ last' = [op |-> "refine", name |-> "truncate", n |-> Steps + 1,
                before |-> cur, limit |-> limit]
    /\ UNCHANGED env

\* cur = cur | refine.add_headers
AddHeaders ==
    /\ status = "run"
    /\ Steps < MaxRefine
    /\ Returned(add_headers(cur))
    /\ last' = [op |-> "refine", name |-> "add_headers", n |-> Steps + 1,
                before |-> cur, limit |-> NoLimit]
    /\ UNCHANGED env

\* cur = cur | refine.format_tables
FormatTables ==
    /\ status = "run"
    /\ Steps < MaxRefine
    /\ Returned(format_tables(cur))
    /\ last' = [op |-> "refine", name |-> "format_tables", n |-> Steps + 1,
                before |-> cur, limit |-> NoLimit]
    /\ UNCHANGED env

\* cur = cur | refine.resize_images
ResizeImages ==
    /\ status = "run"
    /\ Steps < MaxRefine
    /\ Returned(resize_images(cur))
    /\ last' = [op |-> "refine", name |-> "resize_images", n |-> Steps + 1,
                before |-> cur, limit |-> NoLimit]
    /\ UNCHANGED env

\* cur = cur | present.<name>, no payload being loaded
PresentFallback(name) ==
    /\ status = "run"
    /\ Steps < MaxRefine
    /\ Returned(fallback_presenter(name, cur))
    /\ last' = [op |-> "present", name |-> name, n |-> Steps + 1,
                before |-> cur, limit |-> NoLimit]
    /\ UNCHANGED env

\* cur = cur | modify.pages
ModifyPages ==
    /\ status = "run"
    /\ Steps < MaxRefine
    /\ Returned(pages_fallback(cur))
    /\ last' = [op |-> "modify", name |-> "pages", n |-> Steps + 1,
                before |-> cur, limit |-> NoLimit]
    /\ UNCHANGED env

NextRefine ==
    \/ \E limit \in RefineLimits : Truncate(limit)
    \/ AddHeaders
    \/ FormatTables
    \/ ResizeImages
    \/ \E name \in ErrorPresenters : PresentFallback(name)
    \/ ModifyPages

SpecRefine == InitRefine /\ [][NextRefine]_vars

\* the entries of metadata.processing with operation "truncate"
TruncateRecorded(att) ==
    \E i \in 1..Len(DictGet(att.metadata, "processing", <<>>)) :
        att.metadata["processing"][i].operation = "truncate"

\* C21: a modifier, presenter or refiner other than the truncating one
\* never shortens the text and never reduces the number of images; a
\* truncation that shortens the text records a processing entry with
\* operation "truncate"
C21_Monotone ==
    last.op \in {"refine", "present", "modify"} =>
        /\ last.name # "truncate" =>
               /\ Len(cur.text) >= Len(last.before.text)
               /\ Len(cur.images) >= Len(last.before.images)
        /\ last.name = "truncate" /\ Len(cur.text) < Len(last.before.text) =>
               TruncateRecorded(cur)

\* C22: after refine.truncate with budget L the text has at most L
\* characters and is not longer than before; a text of at most L
\* characters is unchanged
C22_WithinBudget ==
    last.op = "refine" /\ last.name = "truncate" =>
        /\ Len(cur.text) <= LimitOf(last.before, last.limit)
        /\ Len(cur.text) <= Len(last.before.text)
        /\ Len(last.before.text) <= LimitOf(last.before, last.limit) =>
               cur.text = last.before.text

(***************************************************************************)
(* The pipeline trace of an artifact a pipeline was called with.           *)
(***************************************************************************)
\* the calls of a log that returned: a verb that raises logs its name too
Succeeded(lg) ==
    SelectSeq(lg, LAMBDA n : n \in StepNames
                             /\ RegBeh[n] \in {"mark", "skip", "none"})

\* C23: after a composed pipeline was called with an artifact and returned
\* an artifact, the length of the artifact's pipeline trace is the number
\* of verbs successfully invoked on it
C23_TraceCountsVerbs ==
    last.op = "call" /\ status = "run" /\ isAttachment(cur) =>
        Len(cur.pipeline) = Len(Succeeded(log))

(***************************************************************************)
(* Loading with the temporary files it creates.  env.temps is the set of   *)
(* temporary files that exist, all of them created by the loaders.  The    *)
(* outcome of a loader is the call result and the files existing after it. *)
(***************************************************************************)
\* the file tempfile.NamedTemporaryFile(delete=False) creates for a PDF copy
\* and for a download with the suffix ext
PdfCopy == <<"tmp", "copy", ".pdf">>
Download(ext) == <<"tmp", "download", ext>>

\* Path(url_path).suffix
Suffix(path) == path[Len(path)]

\* att.path.startswith(('http://', 'https://'))
IsUrl(path) == path[1] = "http://"

FilesAfter(r, temps) == [r |-> r, temps |-> temps]

\* load.pdf_to_pdfplumber with the file system: e.pypdf whether pypdf is
\* installed, e.rewrite how writing and reopening the copy ends, e.parses
\* whether the file is a PDF that pypdf and pdfplumber can read
pdf_to_pdfplumber_files(att, e, temps) ==
    IF e.pypdf /\ e.parses /\ e.rewrite = "ok"
    THEN FilesAfter(
           Same([att EXCEPT !.obj = "PDF",
                            !.metadata = DictSet(@, "temp_pdf_path", PdfCopy)],
                <<"pdf_to_pdfplumber">>),
           temps \cup {PdfCopy})
    ELSE IF e.parses
    THEN FilesAfter(Same([att EXCEPT !.obj = "PDF"], <<"pdf_to_pdfplumber">>),
                    IF e.pypdf THEN temps \cup {PdfCopy} ELSE temps)
    ELSE FilesAfter(Raise("pdf_to_pdfplumber", att, <<"pdf_to_pdfplumber">>),
                    temps)

\* load.csv_to_pandas with the file system
csv_to_pandas_files(att, e, temps) ==
    IF e.parses
    THEN FilesAfter(Same([att EXCEPT !.obj = "DataFrame"],
                         <<"csv_to_pandas">>), temps)
    ELSE FilesAfter(Raise("csv_to_pandas", att, <<"csv_to_pandas">>), temps)

\* load.py 64-72: the artifact after the download was saved
Downloaded(att) ==
    [att EXCEPT !.path = Download(Suffix(att.path)),
                !.metadata =
                    DictSet(DictSet(DictSet(@, "original_url", att.path),
                                    "temp_file_path",
                                    Download(Suffix(att.path))),
                            "downloaded_from_url", TRUE)]

\* load.py 107-113: d is what the delegate did
Delegated(d) ==
    IF d.r.tag = "exc"
    THEN FilesAfter(Raise("url_to_file", d.r.arg, <<"url_to_file">> \o d.r.log),
                    d.temps \ {DictGet(d.r.arg.metadata, "temp_file_path",
                                       <<>>)})
    ELSE FilesAfter(After(<<"url_to_file">>, d.r), d.temps)

\* load.url_to_file
url_to_file(att, e, temps) ==
    IF e.download # "ok"
    THEN FilesAfter(Raise("url_to_file", att, <<"url_to_file">>), temps)
    ELSE IF Suffix(att.path) = ".pdf"
    THEN Delegated(pdf_to_pdfplumber_files(
                     Downloaded(att), e,
                     temps \cup {Download(Suffix(att.path))}))
    ELSE Delegated(csv_to_pandas_files(
                     Downloaded(att), e,
                     temps \cup {Download(Suffix(att.path))}))

\* the loader of the chain that matches the path
LoadFiles(att, e, temps) ==
    IF IsUrl(att.path) THEN url_to_file(att, e, temps)
    ELSE IF Suffix(att.path) = ".pdf"
    THEN pdf_to_pdfplumber_files(att, e, temps)
    ELSE csv_to_pandas_files(att, e, temps)

\* del self.metadata[key]
DictDel(d, key) == [k \in DOMAIN d \ {key} |-> d[k]]

\* Attachment.cleanup: the artifact afterwards
CleanedUp(att) ==
    [att EXCEPT !.metadata = DictDel(DictDel(@, "temp_pdf_path"),
                                     "temp_file_path")]

\* Attachment.cleanup: the temporary files afterwards
cleanup(att, temps) ==
    temps \ {DictGet(att.metadata, "temp_pdf_path", <<>>),
             DictGet(att.metadata, "temp_file_path", <<>>)}

LoadPaths ==
    {<<"a", ".pdf">>, <<"b", ".csv">>,
     <<"http://", "u", ".pdf">>, <<"http://", "u", ".csv">>}

InitLoadFiles ==
    /\ cur \in {Attachment(p, EmptyMap) : p \in LoadPaths}
    /\ status = "run"
    /\ last = [op |-> "init", name |-> "", n |-> 0, before |-> NoneV]
    /\ log = <<>>
    /\ error = ""
    /\ env \in [readable : {{}}, pypdf : BOOLEAN, beh : {NoBeh},
                handlers : {NoHandlers}, parses : BOOLEAN,
                rewrite : {"ok", "write_raises", "open_raises"},
                download : {"ok", "raises"},
                temps : {{}}, path : {cur.path}]

\* cur = cur | load.<the loader that matches>
LoadWithFiles ==
    /\ status = "run"
    /\ last.op = "init"
    /\ Returned(LoadFiles(cur, env, env.temps).r)
    /\ env' = [env EXCEPT !.temps = LoadFiles(cur, env, env.temps).temps]
    /\ last' = [op |-> "load", name |-> "", n |-> Steps + 1, before |-> cur]

\* cur = cur | present.<name>, a later step that may raise
LaterStep(name, failing) ==
    /\ status = "run"
    /\ last.op = "load"
    /\ Returned(IF failing THEN Raise(name, cur, <<name>>)
                ELSE fallback_presenter(name, cur))
    /\ last' = [op |-> "present", name |-> name, n |-> Steps + 1,
                before |-> cur]
    /\ UNCHANGED env

\* cur.cleanup(), by the caller or by __del__
Cleanup ==
    /\ last.op \in {"load", "present"}
    /\ cur' = CleanedUp(cur)
    /\ env' = [env EXCEPT !.temps = cleanup(cur, @)]
    /\ last' = [op |-> "cleanup", name |-> "", n |-> Steps + 1,
                before |-> cur]
    /\ UNCHANGED <<status, log, error>>

NextLoadFiles ==
    \/ LoadWithFiles
    \/ \E name \in ErrorPresenters, failing \in BOOLEAN :
          LaterStep(name, failing)
    \/ Cleanup

SpecLoadFiles == InitLoadFiles /\ [][NextLoadFiles]_vars

\* C24: once the artifact's cleanup has run, no temporary file created
\* while loading it exists, whether the loading and the later steps
\* succeeded or raised
C24_TempFilesRemoved ==
    last.op = "cleanup" => env.temps = {}

\* C25: no loader and no later verb changes the artifact's path, on success
\* or on failure
C25_PathFixed == cur.path = env.path

(***************************************************************************)
(* The pages modifier and the presenters of a PDF.  A document is the      *)
(* sequence of its pages, a page the number of characters of its stripped  *)
(* text.  The pages command is the sequence of its comma-separated parts.  *)
(***************************************************************************)
\* the parts of a pages command: "k", "a-b" and "-1"
Num(k) == [t |-> "num", n |-> k]
Range(a, b) == [t |-> "range", a |-> a, b |-> b]
LastPage == [t |-> "last"]

\* list(range(a, b + 1))
Interval(a, b) == [i \in 1..(IF b >= a THEN b - a + 1 ELSE 0) |-> a + i - 1]

\* modify.py 22-37: the pages the parts name in a document of n pages
RECURSIVE SelectedPages(_, _)
SelectedPages(parts, n) ==
    IF parts = <<>> THEN <<>>
    ELSE (CASE Head(parts).t = "range" ->
                   Interval(Head(parts).a, Head(parts).b)
            [] Head(parts).t = "last"  -> <<n>>
            [] Head(parts).t = "num"   -> <<Head(parts).n>>)
         \o SelectedPages(Tail(parts), n)

\* modify.pages(att, pdf)
pages(att, pdf) ==
    IF "pages" \notin DOMAIN att.commands THEN Same(att, <<"pages">>)
    ELSE Same([att EXCEPT !.metadata =
                   DictSet(@, "selected_pages",
                           SelectedPages(att.commands["pages"], Len(pdf)))],
              <<"pages">>)

\* present.py 27-31: pages_to_process
PagesToProcess(att, pdf) ==
    IF "selected_pages" \in DOMAIN att.metadata
    THEN att.metadata["selected_pages"]
    ELSE Interval(1, Len(pdf))

\* the pages of pages_to_process the loop does not skip
InDocument(pp, pdf) == SelectSeq(pp, LAMBDA p : 1 <= p /\ p <= Len(pdf))

\* total_text_length and pages_with_text over the pages pp
RECURSIVE TextLength(_, _)
TextLength(pp, pdf) ==
    IF pp = <<>> THEN 0 ELSE pdf[Head(pp)] + TextLength(Tail(pp), pdf)

PagesWithText(pp, pdf) == Len(SelectSeq(pp, LAMBDA p : pdf[p] > 0))

\* present.py 57-62: total / count is avg_text_per_page
is_likely_scanned(total, count, with_text) ==
    \/ with_text = 0
    \/ total < 50 * count
    \/ 10 * with_text < 3 * count

\* the quality decided by the average alone
QualityByAverage(total, count, with_text) ==
    IF count = 0 \/ total < 20 * count THEN "poor"
    ELSE IF total < 50 * count THEN "limited"
    ELSE "good"

\* present.py 64-87: text_extraction_quality
Quality(total, count, with_text) ==
    IF is_likely_scanned(total, count, with_text)
    THEN IF count = 0 \/ total < 20 * count THEN "poor" ELSE "limited"
    ELSE "good"

\* the att.metadata.update of both branches
WithQuality(metadata, total, count, with_text) ==
    DictSet(DictSet(DictSet(DictSet(DictSet(metadata,
        "is_likely_scanned", is_likely_scanned(total, count, with_text)),
        "pages_with_text", with_text),
        "total_pages", count),
        "avg_text_per_page", [total |-> total, pages |-> count]),
        "text_extraction_quality", Quality(total, count, with_text))

\* the heading and the section of each page written
PageSections(head, pp) ==
    <<[head |-> head]>> \o [i \in 1..Len(pp) |-> [page |-> pp[i]]]

\* present.markdown(att, pdf)
pdf_markdown(att, pdf) ==
    Same([att EXCEPT
            !.text = @ \o PageSections("# PDF Document",
                             InDocument(PagesToProcess(att, pdf), pdf)),
            !.metadata =
                WithQuality(@,
                    TextLength(InDocument(PagesToProcess(att, pdf), pdf), pdf),
                    Len(PagesToProcess(att, pdf)),
                    PagesWithText(InDocument(PagesToProcess(att, pdf), pdf),
                                  pdf))],
         <<"markdown">>)

\* present.text(att, pdf)
pdf_text(att, pdf) ==
    Same([att EXCEPT
            !.text = @ \o PageSections("PDF Document",
                             InDocument(PagesToProcess(att, pdf), pdf)),
            !.metadata =
                IF "is_likely_scanned" \in DOMAIN @ THEN @
                ELSE WithQuality(@,
                    TextLength(InDocument(PagesToProcess(att, pdf), pdf), pdf),
                    Len(PagesToProcess(att, pdf)),
                    PagesWithText(InDocument(PagesToProcess(att, pdf), pdf),
                                  pdf))],
         <<"text">>)

\* present.py 444-449: max_pages
max_pages(att, num_pages) ==
    IF "pages" \in DOMAIN att.commands
    THEN IF num_pages < 20 THEN num_pages ELSE 20
    ELSE IF num_pages < 10 THEN num_pages ELSE 10

\* present.images(att, pdf_reader), pypdfium2 installed: one image per
\* page rendered
pdf_images(att, pdf) ==
    Same([att EXCEPT
            !.images = @ \o [i \in 1..max_pages(att, Len(pdf)) |->
                                [page |-> i]],
            !.metadata =
                DictSet(DictSet(@, "pdf_pages_rendered",
                                max_pages(att, Len(pdf))),
                        "pdf_total_pages", Len(pdf))],
         <<"images">>)

\* the stripped text lengths of the pages of the documents
PageLengths == {0, 30, 200}

PdfDocuments == UNION {[1..n -> PageLengths] : n \in 1..MaxPages}

PagesCommands ==
    {<<Num(1)>>, <<Num(1), Num(3), LastPage>>, <<Range(1, 3)>>,
     <<Range(2, 2), Num(1)>>, <<Num(MaxPages + 1)>>, <<Range(3, 1)>>,
     <<LastPage, Num(1), Num(1)>>}

InitPdf ==
    /\ cur \in {[Attachment(<<"x", ".pdf">>, c) EXCEPT !.obj = "PDF"] :
                  c \in {EmptyMap} \cup
                        {DictSet(EmptyMap, "pages", p) : p \in PagesCommands}}
    /\ status = "run"
    /\ last = [op |-> "init", name |-> "", n |-> 0, before |-> NoneV]
    /\ log = <<>>
    /\ error = ""
    /\ env \in [readable : {{}}, pypdf : {TRUE}, beh : {NoBeh},
                handlers : {NoHandlers}, pdf : PdfDocuments]

\* cur = cur | modify.pages
SelectPages ==
    /\ status = "run"
    /\ Steps < MaxRefine
    /\ Returned(pages(cur, env.pdf))
    /\ last' = [op |-> "modify", name |-> "pages", n |-> Steps + 1,
                before |-> cur]
    /\ UNCHANGED env

\* cur = cur | present.markdown
PresentMarkdown ==
    /\ status = "run"
    /\ Steps < MaxRefine
    /\ Returned(pdf_markdown(cur, env.pdf))
    /\ last' = [op |-> "present", name |-> "markdown", n |-> Steps + 1,
                before |-> cur]
    /\ UNCHANGED env

\* cur = cur | present.text
PresentText ==
    /\ status = "run"
    /\ Steps < MaxRefine
    /\ Returned(pdf_text(cur, env.pdf))
    /\ last' = [op |-> "present", name |-> "text", n |-> Steps + 1,
                before |-> cur]
    /\ UNCHANGED env

\* cur = cur | present.images
PresentImages ==
    /\ status = "run"
    /\ Steps < MaxRefine
    /\ Returned(pdf_images(cur, env.pdf))
    /\ last' = [op |-> "present", name |-> "images", n |-> Steps + 1,
                before |-> cur]
    /\ UNCHANGED env

NextPdf ==
    \/ SelectPages
    \/ PresentMarkdown
    \/ PresentText
    \/ PresentImages

SpecPdf == InitPdf /\ [][NextPdf]_vars

\* the pages a presenter emitted output for: the page sections appended to
\* the text and the images appended
EmittedPages ==
    [i \in 1..(Len(SelectSeq(cur.text, LAMBDA s : "page" \in DOMAIN s))
               - Len(SelectSeq(last.before.text,
                               LAMBDA s : "page" \in DOMAIN s))
               + Len(cur.images) - Len(last.before.images)) |->
        IF last.name = "images"
        THEN cur.images[Len(last.before.images) + i].page
        ELSE SelectSeq(cur.text, LAMBDA s : "page" \in DOMAIN s)
                 [Len(SelectSeq(last.before.text,
                                LAMBDA s : "page" \in DOMAIN s)) + i].page]

\* the indices a pages command names, in order, -1 being the last page
Named(parts, n) ==
    [i \in 1..Len(SelectedPages(parts, n)) |-> SelectedPages(parts, n)[i]]

\* C26: after the pages modifier on a document of n pages selected_pages
\* is the list of the indices the command names, in order, ranges expanded
\* and -1 replaced by n; every PDF presenter then emits output for exactly
\* the selected pages that lie in 1..n
C26_SelectedPagesOnly ==
    /\ last.op = "modify" /\ "pages" \in DOMAIN cur.commands =>
           cur.metadata["selected_pages"]
               = Named(cur.commands["pages"], Len(env.pdf))
    /\ last.op = "present"
       /\ "selected_pages" \in DOMAIN last.before.metadata =>
           EmittedPages = InDocument(last.before.metadata["selected_pages"],
                                     env.pdf)

\* the quality was recorded by the presenter applied last
QualityRecorded ==
    /\ last.op = "present"
    /\ last.name \in {"text", "markdown"}
    /\ "text_extraction_quality" \in DOMAIN cur.metadata

\* avg_text_per_page < k
AverageBelow(k) ==
    \/ cur.metadata["avg_text_per_page"].pages = 0
    \/ cur.metadata["avg_text_per_page"].total
           < k * cur.metadata["avg_text_per_page"].pages

\* fewer than 30% of the processed pages have text
FewPagesWithText ==
    10 * cur.metadata["pages_with_text"] < 3 * cur.metadata["total_pages"]

\* C28 as stated: the quality is poor when avg_text_per_page < 20, limited
\* when 20 <= avg_text_per_page < 50 and good when it is at least 50
C28_QualityByAverage ==
    QualityRecorded =>
        cur.metadata["text_extraction_quality"]
            = IF AverageBelow(20) THEN "poor"
              ELSE IF AverageBelow(50) THEN "limited" ELSE "good"

\* C28: the quality is poor when avg_text_per_page < 20; good when
\* avg_text_per_page >= 50 and at least 30% of the processed pages have
\* text; limited otherwise
C28_QualityByAverageAndCoverage ==
    QualityRecorded =>
        cur.metadata["text_extraction_quality"]
            = IF AverageBelow(20) THEN "poor"
              ELSE IF AverageBelow(50) \/ FewPagesWithText THEN "limited"
              ELSE "good"

\* a document with an average of at least 50 characters where fewer than
\* 30% of the pages have text
C28_Witness ==
    /\ QualityRecorded
    /\ ~AverageBelow(50)
    /\ FewPagesWithText
    /\ cur.metadata["text_extraction_quality"] = "limited"

(***************************************************************************)
(* Collecting the files of a directory, a repository or a glob.  A file    *)
(* is a number, env.walk the directories in the order os.walk yields them  *)
(* (the first one is the base directory), each with its files in listing   *)
(* order, env.keep whether a file passes the ignore, binary and glob       *)
(* filters.                                                                *)
(***************************************************************************)
\* int(att.commands.get('max_files', '1000'))
max_files(att) == DictGet(att.commands, "max_files", <<1000>>)[1]

\* the loop over the file names of one directory: files is the list so far
RECURSIVE CollectLoop(_, _, _, _)
CollectLoop(filenames, files, keep, m) ==
    IF filenames = <<>> THEN files
    ELSE IF ~keep[Head(filenames)]
    THEN CollectLoop(Tail(filenames), files, keep, m)
    ELSE IF Len(files) + 1 >= m
    THEN Append(files, Head(filenames))
    ELSE CollectLoop(Tail(filenames), Append(files, Head(filenames)),
                     keep, m)

\* the loop over os.walk: files is the list after the directories visited
RECURSIVE WalkLoop(_, _, _, _)
RECURSIVE WalkOutcome(_, _, _, _)
WalkLoop(dirs, files, keep, m) ==
    IF dirs = <<>> THEN files
    ELSE WalkOutcome(CollectLoop(Head(dirs), files, keep, m), Tail(dirs),
                     keep, m)

\* load.py 529-530: files is the list after one directory
WalkOutcome(files, rest, keep, m) ==
    IF Len(files) >= m THEN files ELSE WalkLoop(rest, files, keep, m)

\* sorted(files)
Sorted(files) == SortSeq(files, LAMBDA a, b : a < b)

\* load._collect_files
collect_files(walk, keep, m, recursive) ==
    Sorted(IF recursive THEN WalkLoop(walk, <<>>, keep, m)
           ELSE CollectLoop(walk[1], <<>>, keep, m))

\* load._collect_files_from_glob: glob.glob yields every file of the walk
collect_files_from_glob(walk, keep, m) ==
    Sorted(CollectLoop(walk[1] \o walk[2], <<>>, keep, m))

\* the listings of up to MaxFiles files
Listings ==
    {s \in UNION {[1..n -> 1..MaxFiles] : n \in 0..MaxFiles} :
        \A i, j \in 1..Len(s) : i # j => s[i] # s[j]}

Walks ==
    UNION {{<<SubSeq(s, 1, k), SubSeq(s, k + 1, Len(s))>> : k \in 0..Len(s)} :
             s \in Listings}

\* a path with a glob pattern under the directory
GlobPath == DirPath \o <<"/", "*">>

MaxFilesCommands ==
    {EmptyMap} \cup {DictSet(EmptyMap, "max_files", <<m>>) : m \in 0..MaxFiles}

InitCollect ==
    /\ cur \in {Attachment(p, c) : p \in {DirPath, GlobPath},
                                   c \in MaxFilesCommands}
    /\ status = "run"
    /\ last = [op |-> "init", name |-> "", n |-> 0, files |-> <<>>]
    /\ log = <<>>
    /\ error = ""
    /\ env \in [readable : {{}}, pypdf : {FALSE}, beh : {NoBeh},
                handlers : {NoHandlers}, walk : Walks,
                keep : [1..MaxFiles -> BOOLEAN]]

\* cur = cur | load.directory_to_structure on a directory, or
\* load.git_repo_to_structure (recursive)
LoadDirectory(recursive) ==
    /\ last.op = "init"
    /\ cur.path # GlobPath
    /\ last' = [op |-> "load", name |-> "directory", n |-> 1,
                files |-> collect_files(env.walk, env.keep, max_files(cur),
                                        recursive)]
    /\ cur' = [cur EXCEPT !.obj = "dict",
                          !.metadata = DictSet(@, "file_count",
                                               Len(last'.files))]
    /\ log' = <<"directory_to_structure">>
    /\ UNCHANGED <<status, error, env>>

\* cur = cur | load.directory_to_structure on a path with a glob pattern
LoadGlob ==
    /\ last.op = "init"
    /\ cur.path = GlobPath
    /\ last' = [op |-> "load", name |-> "glob", n |-> 1,
                files |-> collect_files_from_glob(env.walk, env.keep,
                                                  max_files(cur))]
    /\ cur' = [cur EXCEPT !.obj = "dict",
                          !.metadata = DictSet(@, "file_count",
                                               Len(last'.files))]
    /\ log' = <<"directory_to_structure">>
    /\ UNCHANGED <<status, error, env>>

NextCollect ==
    \/ \E recursive \in BOOLEAN : LoadDirectory(recursive)
    \/ LoadGlob

SpecCollect == InitCollect /\ [][NextCollect]_vars

\* C27: for every max_files m >= 0 the file list of a directory,
\* repository or glob load has at most m entries; with m = 0 the list is
\* empty and the load raises nothing
C27_AtMostMaxFiles ==
    last.op = "load" =>
        /\ Len(last.files) <= max_files(cur)
        /\ status = "run"

(***************************************************************************)
(* Steps that return None.                                                 *)
(***************************************************************************)
\* a pipeline of verbs that append to the text or return None, one of them
\* returning None, was called with an artifact
C29_Case ==
    /\ last.op = "call"
    /\ isAttachment(last.input)
    /\ last.verbs_only
    /\ \A i \in 1..Len(last.verbs) : RegBeh[last.verbs[i]] \in {"mark", "none"}
    /\ \E i \in 1..Len(last.verbs) : RegBeh[last.verbs[i]] = "none"

\* C29: a step that returns None keeps the previous result: the next step
\* receives the artifact the None-returning step received, and when that
\* step is the last one the pipeline returns that artifact
C29_NoneKeepsPrevious ==
    C29_Case =>
        /\ status = "run"
        /\ isAttachment(cur)
        /\ cur.text = last.input.text
                      \o SelectSeq(last.verbs,
                                   LAMBDA n : RegBeh[n] = "mark")

(***************************************************************************)
(* The input a fallback pipeline starts from.                              *)
(***************************************************************************)
\* what the main steps of the pipeline called last did
MainRun ==
    execute_steps(AsAttachment(last.input), last.pipeline.steps, last.input,
                  last.input.kind # "str", <<>>, env)

\* the fallbacks tried on the input as it was when the pipeline was called
FromInput ==
    TryFallbacks(last.pipeline.fallback_pipelines, last.input, MainRun.exc,
                 <<>>, env)

\* C30: when the main steps of a pipeline raise after earlier steps changed
\* the artifact, the fallback starts from the input as it was before the
\* failed attempt: a fresh artifact for a string, and for an artifact none
\* of the changes of the failed attempt
C30_FallbackFromInput ==
    /\ last.op = "call"
    /\ last.pipeline.fallback_pipelines # <<>>
    /\ MainRun.tag = "exc"
    /\ FromInput.tag = "ok"
    => /\ status = "run"
       /\ cur = FromInput.val


====
